---- MODULE Spec2Model ----
(***************************************************************************)
(* FinTechX back-office core: AuthManager (app/auth.py) and the batch      *)
(* engine (app/batch_processing.py) as state machines.                     *)
(*                                                                         *)
(* Time is counted in minutes.  None is the empty tuple <<>>, and an       *)
(* optional value v is <<v>>.  uuid4() is a counter that never repeats.    *)
(***************************************************************************)
EXTENDS Integers, Sequences, FiniteSets, TLC

\* ---------------------------------------------------------------- bounds
\* Spec: one account, to follow the lockout of a user through time
LockoutUsers == 1
LockoutSessions == 1
\* SpecUsers: several accounts, to follow sessions and the user table
MaxUsers == 2
MaxSessions == 2
\* clock advances in either
MaxTicks == 1
\* RepeatSpec: the sessions granted to one account
RepeatSessions == 3
\* ConcSpec: the threads that call authenticate at the same time
MaxCallers == 2
\* BatchSpec: jobs created, items per job, executions launched, processors
\* registered after the defaults
MaxJobs == 1
MaxItems == 1
MaxThreads == 2
MaxRegistrations == 1
\* ItemsSpec: one execution followed through several items
ItemsJobs == 1
ItemsPerJob == 3
ItemsThreads == 1
ItemsRegistrations == 1
\* ExportSpec: one job, its execution, and the records exported from it
ExportItems == 2
\* PairSpec: two jobs and their executions side by side
PairJobs == 2
PairItems == 1
PairThreads == 2
\* VelocitySpec: evaluations of the velocity rule with timestamps that do not
\* go back; timestamps are minutes in 0..MaxTime
MaxEvaluations == 5
MaxTime == 10
\* EntitySpec: evaluations of several cards, enough for one of them to trigger
EntityEvaluations == 5
\* AnyOrderSpec: evaluations with timestamps in any order
AnyOrderEvaluations == 3
\* StepSpec: the threads inside VelocityCheckRule.evaluate at the same time
\* and the calls they make in all
MaxEvaluators == 2
StepEvaluations == 4
\* EngineSpec: rules in the engine, and evaluations by its velocity rule
MaxRules == 5
EngineEvaluations == 1

\* ------------------------------------------------------ program constants
MaxFailedAttempts == 5
LockoutDuration == 15
SessionTimeout == 480
\* FraudDetectionEngine._initialize_default_rules: VelocityCheckRule(3, 5)
MaxTransactions == 3
TimeWindow == 5

\* ------------------------------------------------------------ input sets
\* Names are tuples of ASCII codes: "a", "A", "b" and "x", "X", "y".
Usernames == {<<97>>, <<65>>, <<98>>}
Emails == {<<120>>, <<88>>, <<121>>}
\* the (username, email, password) triples offered to create_user:
\* a/x, A/y and b/X
Accounts == {<<<<97>>, <<120>>, 1>>, <<<<65>>, <<121>>, 1>>, <<<<98>>, <<88>>, 1>>}
OneAccount == {<<<<97>>, <<120>>, 1>>}
Passwords == {1, 2}
\* os.urandom(32)
Salts == {1}
\* a lockout ends exactly at locked_until; a session is expired just after expires_at
TickSteps == {LockoutDuration, SessionTimeout + 1}
\* a session is still valid at expires_at
SessionTicks == {SessionTimeout, SessionTimeout + 1}
\* the updates dictionaries offered to update_user, one key each
Updates == {<<"email", <<120>>>>, <<"active", FALSE>>}
LockoutUpdates == {<<"active", FALSE>>, <<"active", TRUE>>, <<"password", 2>>}

None == <<>>
Some(v) == <<v>>

VARIABLES
    users,            \* AuthManager.users, in dict insertion order
    active_sessions,  \* AuthManager.active_sessions: session id -> record
    now,              \* datetime.now()
    nextUid,          \* next uuid4() of User.__init__
    nextSid,          \* next uuid4() of authenticate
    ticks,            \* clock advances made so far
    last,             \* the last call: operation, user id, session id, result
    run               \* history: per user id, the consecutive wrong-password
                      \* calls made for the user while active

authVars == <<users, active_sessions, now, nextUid, nextSid, ticks, last, run>>

VARIABLES
    calls,            \* per caller thread, its place inside authenticate
    recorded          \* history: per user id, the wrong-password increments
                      \* stored since the counter was last set to 0

concVars == <<calls, recorded>>

VARIABLES
    processors,       \* BatchManager.processors: batch type -> BatchProcessor
    nextPid,          \* identity of the next BatchProcessor object
    jobs,             \* the BatchJob objects ever made; the id is the position
    batch_jobs,       \* BatchManager.batch_jobs: the ids in the table
    threads,          \* the threads started by BatchProcessor.start_batch_job
    lastJob           \* the last BatchManager call: operation, job id, result

batchVars == <<processors, nextPid, jobs, batch_jobs, threads, lastJob>>

VARIABLES
    transaction_history,  \* VelocityCheckRule.transaction_history
    evaluated,            \* history: the <<card_id, timestamp>> pairs evaluated
    lastEval              \* the last evaluate call and what it returned

fraudVars == <<transaction_history, evaluated, lastEval>>

VARIABLES
    lists,            \* the list objects made by VelocityCheckRule.evaluate
    bound,            \* card id -> the list object transaction_history holds
    frames,           \* per caller thread, its place inside evaluate
    returned          \* history: what the step-by-step calls returned

stepVars == <<lists, bound, frames, returned>>

VARIABLES
    exported          \* the last job exported with to_dict and the job made
                      \* of that record with from_dict; None before

VARIABLES
    rules,            \* FraudDetectionEngine.rules
    lastEngine        \* the last engine call: operation, argument, the rules
                      \* before it, each rule's turn, and what it returned

engineVars == <<rules, lastEngine>>

vars == <<authVars, concVars, batchVars, fraudVars, stepVars, engineVars, exported>>

\* ------------------------------------------------------------- helpers
\* str.lower() on ASCII
LowerChar(c) == IF c \in 65..90 THEN c + 32 ELSE c
Lower(s) == [i \in DOMAIN s |-> LowerChar(s[i])]

\* hashlib.pbkdf2_hmac: injective in (password, salt)
HashPassword(password, salt) == <<password, salt>>

UserIds == {users[i].id : i \in DOMAIN users}

\* dict lookup self.users.get(user_id): the position in the table, 0 if absent
UserIndex(user_id) ==
    IF \E i \in DOMAIN users : users[i].id = user_id
    THEN CHOOSE i \in DOMAIN users : users[i].id = user_id
    ELSE 0

\* first match in insertion order, 0 if none
FirstIndex(S) == IF S = {} THEN 0 ELSE CHOOSE i \in S : \A j \in S : i <= j

\* mutant: usernames compared as written
GetUserByUsernameExact(username) ==
    FirstIndex({i \in DOMAIN users : users[i].username = username})

GetUserByUsername(username) ==
    FirstIndex({i \in DOMAIN users : Lower(users[i].username) = Lower(username)})

GetUserByEmail(email) ==
    FirstIndex({i \in DOMAIN users : Lower(users[i].email) = Lower(email)})

IsLocked(u) ==
    IF u.locked_until = None THEN FALSE ELSE now < u.locked_until[1]

NewUser(id, username, email, password, salt) ==
    [id |-> id, username |-> username, email |-> email,
     password_hash |-> HashPassword(password, salt), salt |-> salt,
     active |-> TRUE, failed_login_attempts |-> 0, locked_until |-> None,
     last_login |-> None]

\* mutant: only the first session of the user found is removed
RevokeFirstSession(user_id) ==
    LET mine == {t \in DOMAIN active_sessions : active_sessions[t].user_id = user_id}
        first == IF mine = {} THEN {}
                 ELSE {CHOOSE t \in mine : \A t2 \in mine : t <= t2}
    IN [s \in DOMAIN active_sessions \ first |-> active_sessions[s]]

\* the sessions that survive the removal of every session of user_id
RevokeSessions(user_id) ==
    [s \in {t \in DOMAIN active_sessions : active_sessions[t].user_id # user_id}
        |-> active_sessions[s]]

SessionsOf(user_id) ==
    {s \in DOMAIN active_sessions : active_sessions[s].user_id = user_id}

RemoveAt(seq, i) == [j \in 1..(Len(seq) - 1) |-> IF j < i THEN seq[j] ELSE seq[j + 1]]

\* arg: the password given (authenticate), the sessions revoked (lock_user,
\* deactivate_user, delete_user), 0 otherwise
Call(op, uid, sid, ok, arg) ==
    [op |-> op, uid |-> uid, sid |-> sid, ok |-> ok, arg |-> arg]

\* ------------------------------------------------------------- Init
AuthInit ==
    /\ users = <<>>
    /\ active_sessions = <<>>
    /\ now = 0
    /\ nextUid = 1
    /\ nextSid = 1
    /\ ticks = 0
    /\ last = Call("init", 0, 0, TRUE, 0)
    /\ run = [u \in 1..(MaxUsers + LockoutUsers) |-> 0]

\* ------------------------------------------------------------- actions
CreateUser(username, email, password, salt) ==
    /\ IF GetUserByUsername(username) # 0 \/ GetUserByEmail(email) # 0
       THEN /\ last' = Call("create_user", 0, 0, FALSE, 0)
            /\ UNCHANGED <<users, nextUid>>
       ELSE /\ users' = Append(users, NewUser(nextUid, username, email, password, salt))
            /\ nextUid' = nextUid + 1
            /\ last' = Call("create_user", nextUid, 0, TRUE, 0)
    /\ UNCHANGED <<active_sessions, now, nextSid, ticks, run>>

\* mutant: the threshold compared with > instead of >=
FailedAttemptOffByOne(user) ==
    LET n == user.failed_login_attempts + 1 IN
    [user EXCEPT !.failed_login_attempts = n,
                 !.locked_until = IF n > MaxFailedAttempts
                                  THEN Some(now + LockoutDuration)
                                  ELSE @]

\* the user record after a mismatch: lines 246-251
FailedAttempt(user) ==
    LET n == user.failed_login_attempts + 1 IN
    [user EXCEPT !.failed_login_attempts = n,
                 !.locked_until = IF n >= MaxFailedAttempts
                                  THEN Some(now + LockoutDuration)
                                  ELSE @]

\* mutant: the session timeout left out of expires_at
NewSessionNoTimeout(user) ==
    [user_id |-> user.id, created_at |-> now, expires_at |-> now]

\* the session record of lines 261-265
NewSession(user) ==
    [user_id |-> user.id, created_at |-> now, expires_at |-> now + SessionTimeout]

\* mutant: a locked user is let through to the password check
RejectedInactiveOnly(user) == ~user.active

\* the gate of lines 235-241: inactive or locked users are turned away
Rejected(user) == ~user.active \/ IsLocked(user)

\* history only: a wrong password for an active user lengthens the run (which
\* stays at MaxFailedAttempts once there); a right password ends a shorter
\* run; a granted session ends any run
RunAfter(user, password, granted) ==
    LET match == HashPassword(password, user.salt) = user.password_hash IN
    IF granted THEN 0
    ELSE IF match THEN (IF run[user.id] < MaxFailedAttempts THEN 0 ELSE run[user.id])
    ELSE IF ~user.active THEN run[user.id]
    ELSE IF run[user.id] < MaxFailedAttempts THEN run[user.id] + 1
    ELSE run[user.id]

\* mutant: a refusal returns a value that tells a known user from an unknown
\* one
DeniedNamingUser(user_id, password) ==
    Call("authenticate", user_id, 0 - user_id, FALSE, password)

\* return None, lines 233, 237, 241 and 254: no session id, whatever the
\* reason; user_id is kept as history only
Denied(user_id, password) == Call("authenticate", user_id, 0, FALSE, password)

\* mutant: a granted call leaves the counter of failed attempts as it is
AuthenticateKeepsCounter(username, password) ==
    LET i == GetUserByUsername(username) IN
    /\ IF i = 0
       THEN /\ last' = Denied(0, password)
            /\ UNCHANGED <<users, active_sessions, nextSid>>
       ELSE LET user == users[i] IN
            IF Rejected(user)
            THEN /\ last' = Denied(user.id, password)
                 /\ UNCHANGED <<users, active_sessions, nextSid>>
            ELSE IF HashPassword(password, user.salt) # user.password_hash
            THEN /\ users' = [users EXCEPT ![i] = FailedAttempt(user)]
                 /\ last' = Denied(user.id, password)
                 /\ UNCHANGED <<active_sessions, nextSid>>
            ELSE /\ users' = [users EXCEPT ![i].last_login = Some(now)]
                 /\ active_sessions' =
                       [s \in DOMAIN active_sessions \cup {nextSid} |->
                           IF s = nextSid THEN NewSession(user)
                           ELSE active_sessions[s]]
                 /\ nextSid' = nextSid + 1
                 /\ last' = Call("authenticate", user.id, nextSid, TRUE, password)
    /\ run' = IF i = 0 THEN run
              ELSE [run EXCEPT ![users[i].id] =
                       RunAfter(users[i], password, last'.ok)]
    /\ UNCHANGED <<now, nextUid, ticks>>

\* authenticate, lines 228-268
Authenticate(username, password) ==
    LET i == GetUserByUsername(username) IN
    /\ IF i = 0
       THEN /\ last' = Denied(0, password)
            /\ UNCHANGED <<users, active_sessions, nextSid>>
       ELSE LET user == users[i] IN
            IF Rejected(user)
            THEN /\ last' = Denied(user.id, password)
                 /\ UNCHANGED <<users, active_sessions, nextSid>>
            ELSE IF HashPassword(password, user.salt) # user.password_hash
            THEN /\ users' = [users EXCEPT ![i] = FailedAttempt(user)]
                 /\ last' = Denied(user.id, password)
                 /\ UNCHANGED <<active_sessions, nextSid>>
            ELSE /\ users' = [users EXCEPT ![i].failed_login_attempts = 0,
                                         ![i].last_login = Some(now)]
                 /\ active_sessions' =
                       [s \in DOMAIN active_sessions \cup {nextSid} |->
                           IF s = nextSid THEN NewSession(user)
                           ELSE active_sessions[s]]
                 /\ nextSid' = nextSid + 1
                 /\ last' = Call("authenticate", user.id, nextSid, TRUE, password)
    /\ run' = IF i = 0 THEN run
              ELSE [run EXCEPT ![users[i].id] =
                       RunAfter(users[i], password, last'.ok)]
    /\ UNCHANGED <<now, nextUid, ticks>>

\* line 276
Expired(session) == now > session.expires_at

\* what validate_session(session_id) returns: the user id, 0 for None
ValidateResult(session_id) ==
    IF session_id \notin DOMAIN active_sessions THEN 0
    ELSE IF Expired(active_sessions[session_id]) THEN 0
    ELSE active_sessions[session_id].user_id

\* mutant: an expired session is reported and left in the table
ValidateSessionKeepsExpired(session_id) ==
    /\ UNCHANGED active_sessions
    /\ last' = Call("validate_session", ValidateResult(session_id), session_id,
                    ValidateResult(session_id) # 0, 0)
    /\ UNCHANGED <<users, now, nextUid, nextSid, ticks, run>>

ValidateSession(session_id) ==
    /\ IF session_id \in DOMAIN active_sessions
          /\ Expired(active_sessions[session_id])
       THEN active_sessions' =
               [s \in DOMAIN active_sessions \ {session_id} |-> active_sessions[s]]
       ELSE UNCHANGED active_sessions
    /\ last' = Call("validate_session", ValidateResult(session_id), session_id,
                    ValidateResult(session_id) # 0, 0)
    /\ UNCHANGED <<users, now, nextUid, nextSid, ticks, run>>

\* mutant: logout ends every session of the user
LogoutEverySession(session_id) ==
    /\ IF session_id \in DOMAIN active_sessions
       THEN /\ active_sessions' = RevokeSessions(active_sessions[session_id].user_id)
            /\ last' = Call("logout", 0, session_id, TRUE, 0)
       ELSE /\ UNCHANGED active_sessions
            /\ last' = Call("logout", 0, session_id, FALSE, 0)
    /\ UNCHANGED <<users, now, nextUid, nextSid, ticks, run>>

\* logout, lines 282-286
Logout(session_id) ==
    /\ IF session_id \in DOMAIN active_sessions
       THEN /\ active_sessions' =
                  [s \in DOMAIN active_sessions \ {session_id} |-> active_sessions[s]]
            /\ last' = Call("logout", 0, session_id, TRUE, 0)
       ELSE /\ UNCHANGED active_sessions
            /\ last' = Call("logout", 0, session_id, FALSE, 0)
    /\ UNCHANGED <<users, now, nextUid, nextSid, ticks, run>>

\* the generic branch of lines 335-336 is setattr(user, key, value)
ApplyUpdate(user, key, value) ==
    IF key = "password"
    THEN [user EXCEPT !.password_hash = HashPassword(value, CHOOSE s \in Salts : TRUE),
                      !.salt = CHOOSE s \in Salts : TRUE]
    ELSE IF key = "username" THEN [user EXCEPT !.username = value]
    ELSE IF key = "email" THEN [user EXCEPT !.email = value]
    ELSE IF key = "active" THEN [user EXCEPT !.active = value]
    ELSE user

UpdateUser(user_id, key, value) ==
    LET i == UserIndex(user_id) IN
    /\ IF i = 0
       THEN /\ last' = Call("update_user", user_id, 0, FALSE, 0)
            /\ UNCHANGED users
       ELSE /\ users' = [users EXCEPT ![i] = ApplyUpdate(users[i], key, value)]
            /\ last' = Call("update_user", user_id, 0, TRUE, 0)
    /\ UNCHANGED <<active_sessions, now, nextUid, nextSid, ticks, run>>

DeleteUser(user_id) ==
    LET i == UserIndex(user_id) IN
    /\ IF i = 0
       THEN /\ last' = Call("delete_user", user_id, 0, FALSE, 0)
            /\ UNCHANGED <<users, active_sessions>>
       ELSE /\ users' = RemoveAt(users, i)
            /\ active_sessions' = RevokeSessions(user_id)
            /\ last' = Call("delete_user", user_id, 0, TRUE, Cardinality(SessionsOf(user_id)))
    /\ UNCHANGED <<now, nextUid, nextSid, ticks, run>>

\* mutant: the current password is not verified
ChangePasswordUnverified(user_id, current_password, new_password, salt) ==
    LET i == UserIndex(user_id) IN
    /\ IF i = 0
       THEN /\ last' = Call("change_password", user_id, 0, FALSE, 0)
            /\ UNCHANGED users
       ELSE /\ users' = [users EXCEPT ![i].password_hash = HashPassword(new_password, salt),
                                      ![i].salt = salt]
            /\ last' = Call("change_password", user_id, 0, TRUE,
                            <<current_password, new_password>>)
    /\ UNCHANGED <<active_sessions, now, nextUid, nextSid, ticks, run>>

\* change_password, lines 367-386; history in last.arg: the password before
\* and the password after
ChangePassword(user_id, current_password, new_password, salt) ==
    LET i == UserIndex(user_id) IN
    /\ IF i = 0
       THEN /\ last' = Call("change_password", user_id, 0, FALSE, 0)
            /\ UNCHANGED users
       ELSE IF HashPassword(current_password, users[i].salt) # users[i].password_hash
       THEN /\ last' = Call("change_password", user_id, 0, FALSE, 0)
            /\ UNCHANGED users
       ELSE /\ users' = [users EXCEPT ![i].password_hash = HashPassword(new_password, salt),
                                      ![i].salt = salt]
            /\ last' = Call("change_password", user_id, 0, TRUE,
                            <<current_password, new_password>>)
    /\ UNCHANGED <<active_sessions, now, nextUid, nextSid, ticks, run>>

\* mutant: the lockout is left as it was
ResetPasswordKeepsLockout(user_id, new_password, salt) ==
    LET i == UserIndex(user_id) IN
    /\ IF i = 0
       THEN /\ last' = Call("reset_password", user_id, 0, FALSE, 0)
            /\ UNCHANGED <<users, run>>
       ELSE /\ users' = [users EXCEPT ![i].password_hash = HashPassword(new_password, salt),
                                      ![i].salt = salt,
                                      ![i].failed_login_attempts = 0]
            /\ last' = Call("reset_password", user_id, 0, TRUE,
                            <<users[i].password_hash[1], new_password,
                              IsLocked(users[i])>>)
            /\ run' = [run EXCEPT ![user_id] = 0]
    /\ UNCHANGED <<active_sessions, now, nextUid, nextSid, ticks>>

\* reset_password, lines 388-404; history in last.arg: the password before,
\* the password after, and whether the user was locked
ResetPassword(user_id, new_password, salt) ==
    LET i == UserIndex(user_id) IN
    /\ IF i = 0
       THEN /\ last' = Call("reset_password", user_id, 0, FALSE, 0)
            /\ UNCHANGED <<users, run>>
       ELSE /\ users' = [users EXCEPT ![i].password_hash = HashPassword(new_password, salt),
                                      ![i].salt = salt,
                                      ![i].failed_login_attempts = 0,
                                      ![i].locked_until = None]
            /\ last' = Call("reset_password", user_id, 0, TRUE,
                            <<users[i].password_hash[1], new_password,
                              IsLocked(users[i])>>)
            /\ run' = [run EXCEPT ![user_id] = 0]
    /\ UNCHANGED <<active_sessions, now, nextUid, nextSid, ticks>>

\* lock_user without a duration: duration or self.lockout_duration
LockUser(user_id) ==
    LET i == UserIndex(user_id) IN
    /\ IF i = 0
       THEN /\ last' = Call("lock_user", user_id, 0, FALSE, 0)
            /\ UNCHANGED <<users, active_sessions>>
       ELSE /\ users' = [users EXCEPT ![i].locked_until = Some(now + LockoutDuration)]
            /\ active_sessions' = RevokeSessions(user_id)
            /\ last' = Call("lock_user", user_id, 0, TRUE, Cardinality(SessionsOf(user_id)))
    /\ UNCHANGED <<now, nextUid, nextSid, ticks, run>>

UnlockUser(user_id) ==
    LET i == UserIndex(user_id) IN
    /\ IF i = 0
       THEN /\ last' = Call("unlock_user", user_id, 0, FALSE, 0)
            /\ UNCHANGED <<users, run>>
       ELSE /\ users' = [users EXCEPT ![i].locked_until = None,
                                      ![i].failed_login_attempts = 0]
            /\ last' = Call("unlock_user", user_id, 0, TRUE, 0)
            /\ run' = [run EXCEPT ![user_id] = 0]
    /\ UNCHANGED <<active_sessions, now, nextUid, nextSid, ticks>>

ActivateUser(user_id) ==
    LET i == UserIndex(user_id) IN
    /\ IF i = 0
       THEN /\ last' = Call("activate_user", user_id, 0, FALSE, 0)
            /\ UNCHANGED users
       ELSE /\ users' = [users EXCEPT ![i].active = TRUE]
            /\ last' = Call("activate_user", user_id, 0, TRUE, 0)
    /\ UNCHANGED <<active_sessions, now, nextUid, nextSid, ticks, run>>

DeactivateUser(user_id) ==
    LET i == UserIndex(user_id) IN
    /\ IF i = 0
       THEN /\ last' = Call("deactivate_user", user_id, 0, FALSE, 0)
            /\ UNCHANGED <<users, active_sessions>>
       ELSE /\ users' = [users EXCEPT ![i].active = FALSE]
            /\ active_sessions' = RevokeSessions(user_id)
            /\ last' = Call("deactivate_user", user_id, 0, TRUE, Cardinality(SessionsOf(user_id)))
    /\ UNCHANGED <<now, nextUid, nextSid, ticks, run>>

\* one record of the imported file; role_ok: UserRole(data["role"]) does not raise
Record(id, username, email, password, role_ok) ==
    [id |-> id, username |-> username, email |-> email,
     password_hash |-> HashPassword(password, CHOOSE s \in Salts : TRUE),
     salt |-> CHOOSE s \in Salts : TRUE, role_ok |-> role_ok]

\* User.from_dict on a record that export_to_json wrote for a fresh user
FromDict(rec) ==
    [id |-> rec.id, username |-> rec.username, email |-> rec.email,
     password_hash |-> rec.password_hash, salt |-> rec.salt,
     active |-> TRUE, failed_login_attempts |-> 0, locked_until |-> None,
     last_login |-> None]

\* self.users[user.id] = user on a dict that keeps insertion order
Put(table, user) ==
    IF \E i \in DOMAIN table : table[i].id = user.id
    THEN [i \in DOMAIN table |-> IF table[i].id = user.id THEN user ELSE table[i]]
    ELSE Append(table, user)

RECURSIVE PutAll(_, _)
PutAll(table, recs) ==
    IF recs = <<>> THEN table
    ELSE PutAll(Put(table, FromDict(Head(recs))), Tail(recs))

\* mutant: the first record from_dict refuses ends the import
AcceptedUntilRefused(file) ==
    LET refused == {k \in DOMAIN file : ~file[k].role_ok}
        first == CHOOSE k \in refused : \A k2 \in refused : k <= k2
    IN IF refused = {} THEN file ELSE SubSeq(file, 1, first - 1)

\* the records from_dict accepts, in file order
Accepted(file) == SelectSeq(file, LAMBDA rec : rec.role_ok)

MaxId(S) == IF S = {} THEN 0 ELSE CHOOSE m \in S : \A n \in S : n <= m

ImportFromJson(file) ==
    LET imported_users == Accepted(file)
        top == MaxId({imported_users[i].id : i \in DOMAIN imported_users})
    IN
    /\ IF imported_users # <<>>
       THEN /\ users' = PutAll(users, imported_users)
            /\ last' = Call("import_from_json", 0, 0, TRUE, 0)
       ELSE /\ UNCHANGED users
            /\ last' = Call("import_from_json", 0, 0, FALSE, 0)
    /\ nextUid' = IF top >= nextUid THEN top + 1 ELSE nextUid
    /\ run' = [u \in DOMAIN run |->
                 IF \E k \in DOMAIN imported_users : imported_users[k].id = u
                 THEN 0 ELSE run[u]]
    /\ UNCHANGED <<active_sessions, now, nextSid, ticks>>

\* the files offered to import_from_json
Files == {<<Record(2, <<99>>, <<122>>, 1, FALSE), Record(2, <<65>>, <<120>>, 1, TRUE)>>}
LockoutFiles == {<<Record(1, <<97>>, <<120>>, 1, TRUE)>>,
                 <<Record(1, <<97>>, <<120>>, 1, FALSE)>>}
\* a record with an unknown role between two good ones; no good record at
\* all; two good records with the same id
ImportFiles ==
    {<<Record(3, <<98>>, <<88>>, 2, TRUE), Record(1, <<97>>, <<120>>, 2, FALSE),
       Record(2, <<65>>, <<121>>, 2, TRUE)>>,
     <<Record(1, <<97>>, <<120>>, 2, FALSE), Record(2, <<65>>, <<121>>, 2, FALSE)>>,
     <<Record(1, <<97>>, <<120>>, 2, TRUE), Record(1, <<98>>, <<121>>, 1, TRUE)>>}

Tick(d) ==
    /\ ticks < MaxTicks
    /\ now' = now + d
    /\ ticks' = ticks + 1
    /\ UNCHANGED <<users, active_sessions, nextUid, nextSid, last, run>>

\* ------------------------------------------ authenticate, step by step
\* AuthManager holds no lock, and pbkdf2_hmac releases the interpreter lock:
\* a thread inside authenticate can be overtaken between any two of its
\* reads and writes of the user object.
Callers == 1..MaxCallers

Idle == [pc |-> "idle", user_id |-> 0, password |-> 0, tmp |-> 0]

ConcInit ==
    /\ calls = [c \in Callers |-> Idle]
    /\ recorded = [u \in 1..(MaxUsers + LockoutUsers) |-> 0]

\* lines 229-241: the lookup and the gate; a call turned away returns None
AuthBegin(c, username, password) ==
    LET i == GetUserByUsername(username) IN
    /\ calls[c].pc = "idle"
    /\ IF i = 0 \/ (i # 0 /\ Rejected(users[i]))
       THEN UNCHANGED calls
       ELSE calls' = [calls EXCEPT ![c] = [pc |-> "verify", user_id |-> users[i].id,
                                            password |-> password, tmp |-> 0]]
    /\ UNCHANGED <<authVars, recorded>>

\* lines 243-245: hash the password given and compare
AuthVerify(c) ==
    LET user == users[UserIndex(calls[c].user_id)] IN
    /\ calls[c].pc = "verify"
    /\ calls' = [calls EXCEPT ![c].pc =
                    IF HashPassword(calls[c].password, user.salt) # user.password_hash
                    THEN "load" ELSE "grant"]
    /\ UNCHANGED <<authVars, recorded>>

\* line 246, failed_login_attempts += 1: the read
AuthLoad(c) ==
    LET user == users[UserIndex(calls[c].user_id)] IN
    /\ calls[c].pc = "load"
    /\ calls' = [calls EXCEPT ![c].pc = "store", ![c].tmp = user.failed_login_attempts]
    /\ UNCHANGED <<authVars, recorded>>

\* line 246, failed_login_attempts += 1: the write
AuthStore(c) ==
    LET i == UserIndex(calls[c].user_id) IN
    /\ calls[c].pc = "store"
    /\ users' = [users EXCEPT ![i].failed_login_attempts = calls[c].tmp + 1]
    /\ recorded' = [recorded EXCEPT ![calls[c].user_id] = @ + 1]
    /\ calls' = [calls EXCEPT ![c].pc = "check"]
    /\ UNCHANGED <<active_sessions, now, nextUid, nextSid, ticks, last, run>>

\* lines 249-254: the threshold, then return None
AuthCheck(c) ==
    LET i == UserIndex(calls[c].user_id) IN
    /\ calls[c].pc = "check"
    /\ users' = [users EXCEPT ![i].locked_until =
                    IF users[i].failed_login_attempts >= MaxFailedAttempts
                    THEN Some(now + LockoutDuration) ELSE @]
    /\ calls' = [calls EXCEPT ![c] = Idle]
    /\ UNCHANGED <<active_sessions, now, nextUid, nextSid, ticks, last, run, recorded>>

\* lines 256-268: the counter set to 0 and the session made
AuthGrant(c) ==
    LET i == UserIndex(calls[c].user_id) IN
    /\ calls[c].pc = "grant"
    /\ users' = [users EXCEPT ![i].failed_login_attempts = 0,
                              ![i].last_login = Some(now)]
    /\ active_sessions' =
          [s \in DOMAIN active_sessions \cup {nextSid} |->
              IF s = nextSid THEN NewSession(users[i]) ELSE active_sessions[s]]
    /\ nextSid' = nextSid + 1
    /\ recorded' = [recorded EXCEPT ![calls[c].user_id] = 0]
    /\ calls' = [calls EXCEPT ![c] = Idle]
    /\ UNCHANGED <<now, nextUid, ticks, last, run>>

\* ------------------------------------------------------ batch engine
\* A datetime.now() reading is written Some(t), t the execution that read the
\* clock (0 for the caller of BatchManager).
BatchTypes == {"Payment", "Refund"}
\* the process functions offered to register_processor: 0 stands for None;
\* the default processors carry process function 1
Callbacks == {0, 2}
\* what the process function does with an item: returns success, returns
\* failure, or raises
Results == {"success", "failure", "raise"}

\* BatchProcessor.__init__, lines 141-145
NewProcessor(id, process_function) ==
    [id |-> id, process_function |-> process_function,
     active_jobs |-> {}, job_threads |-> <<>>]

\* BatchItem.__init__, lines 30-35
NewItem == [status |-> "Pending", error_message |-> None, processed_at |-> None]

\* BatchJob.__init__, lines 68-82
NewJob(id, batch_type, n) ==
    [id |-> id, batch_type |-> batch_type,
     items |-> [k \in 1..n |-> NewItem],
     updated_at |-> Some(0), started_at |-> None, completed_at |-> None,
     status |-> "Pending", total_items |-> n,
     processed_items |-> 0, successful_items |-> 0, failed_items |-> 0]

JobCall(op, job_id, ok) == [op |-> op, job_id |-> job_id, ok |-> ok]

\* BatchManager.__init__ and _register_default_processors, lines 231-245
BatchInit ==
    /\ processors = [b \in BatchTypes |->
                        Some(NewProcessor(IF b = "Payment" THEN 1 ELSE 2, 1))]
    /\ nextPid = 3
    /\ jobs = <<>>
    /\ batch_jobs = {}
    /\ threads = <<>>
    /\ lastJob = JobCall("init", 0, TRUE)

RegisterProcessor(batch_type, processor_function) ==
    /\ processors' = [processors EXCEPT
                         ![batch_type] = Some(NewProcessor(nextPid, processor_function))]
    /\ nextPid' = nextPid + 1
    /\ lastJob' = JobCall("register_processor", 0, TRUE)
    /\ UNCHANGED <<jobs, batch_jobs, threads>>

CreateJob(batch_type, n) ==
    LET id == Len(jobs) + 1 IN
    /\ jobs' = Append(jobs, NewJob(id, batch_type, n))
    /\ batch_jobs' = batch_jobs \cup {id}
    /\ lastJob' = JobCall("create_batch_job", id, TRUE)
    /\ UNCHANGED <<processors, nextPid, threads>>

\* BatchProcessor.start_batch_job, lines 193-203
Launch(processor, job_id) ==
    [processor EXCEPT
        !.active_jobs = @ \cup {job_id},
        !.job_threads = [j \in DOMAIN @ \cup {job_id} |->
                            IF j = job_id THEN Len(threads) + 1 ELSE @[j]]]

NewThread(processor, job_id) ==
    [job |-> job_id, proc |-> processor.id,
     process_function |-> processor.process_function,
     pc |-> "begin", idx |-> 0, result |-> "none", tmp |-> 0]

\* BatchManager.start_batch_job, lines 274-294
StartJob(job_id) ==
    IF job_id \notin batch_jobs
    THEN /\ lastJob' = JobCall("start_batch_job", job_id, FALSE)
         /\ UNCHANGED <<processors, nextPid, jobs, batch_jobs, threads>>
    ELSE IF jobs[job_id].status # "Pending"
    THEN /\ lastJob' = JobCall("start_batch_job", job_id, FALSE)
         /\ UNCHANGED <<processors, nextPid, jobs, batch_jobs, threads>>
    ELSE IF processors[jobs[job_id].batch_type] = None
    THEN /\ jobs' = [jobs EXCEPT ![job_id].status = "Failed",
                                 ![job_id].updated_at = Some(0)]
         /\ lastJob' = JobCall("start_batch_job", job_id, FALSE)
         /\ UNCHANGED <<processors, nextPid, batch_jobs, threads>>
    ELSE LET b == jobs[job_id].batch_type
             processor == processors[b][1]
         IN
         /\ processors' = [processors EXCEPT ![b] = Some(Launch(processor, job_id))]
         /\ threads' = Append(threads, NewThread(processor, job_id))
         /\ lastJob' = JobCall("start_batch_job", job_id, TRUE)
         /\ UNCHANGED <<nextPid, jobs, batch_jobs>>

\* BatchManager.delete_batch_job, lines 308-321
DeleteJob(job_id) ==
    IF job_id \in batch_jobs /\ jobs[job_id].status # "Processing"
    THEN /\ batch_jobs' = batch_jobs \ {job_id}
         /\ lastJob' = JobCall("delete_batch_job", job_id, TRUE)
         /\ UNCHANGED <<processors, nextPid, jobs, threads>>
    ELSE /\ lastJob' = JobCall("delete_batch_job", job_id, FALSE)
         /\ UNCHANGED <<processors, nextPid, jobs, batch_jobs, threads>>

\* process_batch, lines 151-159
Begin(t) ==
    LET j == threads[t].job IN
    /\ threads[t].pc = "begin"
    /\ IF threads[t].process_function = 0
       THEN /\ jobs' = [jobs EXCEPT ![j].status = "Failed", ![j].updated_at = Some(t)]
            /\ threads' = [threads EXCEPT ![t].pc = "cleanup"]
       ELSE /\ jobs' = [jobs EXCEPT ![j].status = "Processing",
                                    ![j].started_at = Some(t),
                                    ![j].updated_at = Some(t)]
            /\ threads' = [threads EXCEPT
                              ![t].pc = IF jobs[j].items = <<>> THEN "finish" ELSE "call",
                              ![t].idx = 1]
    /\ UNCHANGED <<processors, nextPid, batch_jobs, lastJob>>

\* mutant: a raise leaves the loop, as an exception not caught per item would
ProcessItemAbortOnRaise(t, result) ==
    LET j == threads[t].job
        k == threads[t].idx
    IN
    /\ threads[t].pc = "call"
    /\ IF result = "raise"
       THEN /\ jobs' = [jobs EXCEPT ![j].status = "Failed"]
            /\ threads' = [threads EXCEPT ![t].pc = "cleanup", ![t].result = result]
       ELSE /\ jobs' = [jobs EXCEPT
                           ![j].items[k].status =
                                IF result = "success" THEN "Completed" ELSE "Failed",
                           ![j].items[k].error_message =
                                IF result = "success" THEN @ ELSE Some("Unknown error")]
            /\ threads' = [threads EXCEPT ![t].pc = "load", ![t].result = result]
    /\ UNCHANGED <<processors, nextPid, batch_jobs, lastJob>>

\* lines 163-166, 169-170 and 173-176: the call and the item's status
ProcessItem(t, result) ==
    LET j == threads[t].job
        k == threads[t].idx
    IN
    /\ threads[t].pc = "call"
    /\ jobs' = [jobs EXCEPT
                   ![j].items[k].status =
                        IF result = "success" THEN "Completed" ELSE "Failed",
                   ![j].items[k].error_message =
                        IF result = "success" THEN @
                        ELSE IF result = "failure" THEN Some("Unknown error")
                        ELSE Some("raised")]
    /\ threads' = [threads EXCEPT ![t].pc = "load", ![t].result = result]
    /\ UNCHANGED <<processors, nextPid, batch_jobs, lastJob>>

\* lines 167, 171 and 177, successful_items += 1 or failed_items += 1: the read
LoadCounter(t) ==
    LET j == threads[t].job IN
    /\ threads[t].pc = "load"
    /\ threads' = [threads EXCEPT
                      ![t].pc = "store",
                      ![t].tmp = IF threads[t].result = "success"
                                 THEN jobs[j].successful_items
                                 ELSE jobs[j].failed_items]
    /\ UNCHANGED <<processors, nextPid, jobs, batch_jobs, lastJob>>

\* mutant: the counters are kept on the job the processor launched last
StoreCounterOfLatest(t) ==
    LET latest == CHOOSE t2 \in DOMAIN threads :
                     /\ threads[t2].proc = threads[t].proc
                     /\ \A t3 \in DOMAIN threads :
                           threads[t3].proc = threads[t].proc => t3 <= t2
        j == threads[latest].job
    IN
    /\ threads[t].pc = "store"
    /\ jobs' = IF threads[t].result = "success"
               THEN [jobs EXCEPT ![j].successful_items = threads[t].tmp + 1]
               ELSE [jobs EXCEPT ![j].failed_items = threads[t].tmp + 1]
    /\ threads' = [threads EXCEPT ![t].pc = "loadp"]
    /\ UNCHANGED <<processors, nextPid, batch_jobs, lastJob>>

\* lines 167, 171 and 177: the write
StoreCounter(t) ==
    LET j == threads[t].job IN
    /\ threads[t].pc = "store"
    /\ jobs' = IF threads[t].result = "success"
               THEN [jobs EXCEPT ![j].successful_items = threads[t].tmp + 1]
               ELSE [jobs EXCEPT ![j].failed_items = threads[t].tmp + 1]
    /\ threads' = [threads EXCEPT ![t].pc = "loadp"]
    /\ UNCHANGED <<processors, nextPid, batch_jobs, lastJob>>

\* lines 179-180, processed_at and processed_items += 1: the read
LoadProcessed(t) ==
    LET j == threads[t].job
        k == threads[t].idx
    IN
    /\ threads[t].pc = "loadp"
    /\ jobs' = [jobs EXCEPT ![j].items[k].processed_at = Some(t)]
    /\ threads' = [threads EXCEPT ![t].pc = "storep", ![t].tmp = jobs[j].processed_items]
    /\ UNCHANGED <<processors, nextPid, batch_jobs, lastJob>>

\* lines 180-181: the write, and the next turn of the loop of line 161
StoreProcessed(t) ==
    LET j == threads[t].job
        k == threads[t].idx
    IN
    /\ threads[t].pc = "storep"
    /\ jobs' = [jobs EXCEPT ![j].processed_items = threads[t].tmp + 1,
                            ![j].updated_at = Some(t)]
    /\ threads' = [threads EXCEPT
                      ![t].pc = IF k < Len(jobs[j].items) THEN "call" ELSE "finish",
                      ![t].idx = k + 1]
    /\ UNCHANGED <<processors, nextPid, batch_jobs, lastJob>>

\* mutant: any failed item makes the job Failed
TerminalStatusAnyFailure(job) ==
    IF job.failed_items = 0 THEN "Completed" ELSE "Failed"

\* mutant: the two tests in the other order
TerminalStatusSwapped(job) ==
    IF job.successful_items = 0 THEN "Failed"
    ELSE IF job.failed_items = 0 THEN "Completed"
    ELSE "Partially Completed"

\* the terminal status rule of lines 183-188
TerminalStatus(job) ==
    IF job.failed_items = 0 THEN "Completed"
    ELSE IF job.successful_items = 0 THEN "Failed"
    ELSE "Partially Completed"

\* lines 183-191
Finish(t) ==
    LET j == threads[t].job IN
    /\ threads[t].pc = "finish"
    /\ jobs' = [jobs EXCEPT ![j].status = TerminalStatus(jobs[j]),
                            ![j].completed_at = Some(t),
                            ![j].updated_at = Some(t)]
    /\ threads' = [threads EXCEPT ![t].pc = "cleanup"]
    /\ UNCHANGED <<processors, nextPid, batch_jobs, lastJob>>

\* _process_batch_thread, lines 213-215, on the processor the thread runs in
Cleanup(t) ==
    LET j == threads[t].job
        b == jobs[j].batch_type
    IN
    /\ threads[t].pc = "cleanup"
    /\ IF processors[b] # None /\ processors[b][1].id = threads[t].proc
          /\ j \in DOMAIN processors[b][1].job_threads
       THEN processors' = [processors EXCEPT
                              ![b] = Some([@[1] EXCEPT !.job_threads =
                                             [x \in DOMAIN @ \ {j} |-> @[x]]])]
       ELSE UNCHANGED processors
    /\ threads' = [threads EXCEPT ![t].pc = "done"]
    /\ UNCHANGED <<nextPid, jobs, batch_jobs, lastJob>>

\* BatchJob.get_progress, lines 134-137, in percent rounded down
GetProgress(job) ==
    IF job.total_items = 0 THEN 100
    ELSE (job.processed_items * 100) \div job.total_items

\* the executions launched for a job
Executions(job_id) == {t \in DOMAIN threads : threads[t].job = job_id}

\* ------------------------------------------- batch job records
\* An enum member is named by its value; its .value in a record is the text,
\* and BatchStatus(text) or BatchType(text) looks the member up by it.
BatchStatuses == {"Pending", "Processing", "Completed", "Failed", "Partially Completed"}
Value(member) == [text |-> member]
BatchStatus(value) == CHOOSE m \in BatchStatuses : Value(m) = value
BatchType(value) == CHOOSE m \in BatchTypes : Value(m) = value

\* datetime.isoformat and datetime.fromisoformat
IsoFormat(t) == [iso |-> t]
FromIsoFormat(text) == text.iso

\* "x.isoformat() if x else None"
OptionalIso(x) == IF x # None THEN Some(IsoFormat(x[1])) ELSE None

\* BatchItem.to_dict, lines 37-44
ItemToDict(item) ==
    [status |-> item.status, error_message |-> item.error_message,
     processed_at |-> OptionalIso(item.processed_at)]

\* BatchItem.from_dict, lines 46-56
ItemFromDict(data) ==
    LET item == [NewItem EXCEPT !.status = data.status,
                                !.error_message = data.error_message]
    IN IF data.processed_at # None
       THEN [item EXCEPT !.processed_at = Some(FromIsoFormat(data.processed_at[1]))]
       ELSE item

\* BatchJob.to_dict, lines 84-101
JobToDict(job) ==
    [id |-> job.id, batch_type |-> Value(job.batch_type),
     updated_at |-> IsoFormat(job.updated_at[1]),
     started_at |-> OptionalIso(job.started_at),
     completed_at |-> OptionalIso(job.completed_at),
     status |-> Value(job.status),
     total_items |-> job.total_items,
     processed_items |-> job.processed_items,
     successful_items |-> job.successful_items,
     failed_items |-> job.failed_items,
     items |-> [k \in DOMAIN job.items |-> ItemToDict(job.items[k])]]

\* the job made by the constructor call of lines 108-114
Constructed(data) ==
    LET items == [k \in DOMAIN data.items |-> ItemFromDict(data.items[k])]
    IN [NewJob(0, BatchType(data.batch_type), Len(items)) EXCEPT !.items = items]

\* mutant: the counters are left as the constructor set them
JobFromDictWithoutCounters(data) ==
    LET job == [Constructed(data) EXCEPT
                   !.id = data.id,
                   !.updated_at = Some(FromIsoFormat(data.updated_at)),
                   !.status = BatchStatus(data.status)]
        started == IF data.started_at # None
                   THEN [job EXCEPT !.started_at = Some(FromIsoFormat(data.started_at[1]))]
                   ELSE job
    IN IF data.completed_at # None
       THEN [started EXCEPT !.completed_at = Some(FromIsoFormat(data.completed_at[1]))]
       ELSE started

\* BatchJob.from_dict, lines 103-132
JobFromDict(data) ==
    LET job == [Constructed(data) EXCEPT
                   !.id = data.id,
                   !.updated_at = Some(FromIsoFormat(data.updated_at)),
                   !.status = BatchStatus(data.status),
                   !.total_items = data.total_items,
                   !.processed_items = data.processed_items,
                   !.successful_items = data.successful_items,
                   !.failed_items = data.failed_items]
        started == IF data.started_at # None
                   THEN [job EXCEPT !.started_at = Some(FromIsoFormat(data.started_at[1]))]
                   ELSE job
    IN IF data.completed_at # None
       THEN [started EXCEPT !.completed_at = Some(FromIsoFormat(data.completed_at[1]))]
       ELSE started

ExportInit == exported = None

\* job.to_dict() of a job of the manager, then BatchJob.from_dict of the
\* record
ExportImport(job_id) ==
    /\ job_id \in batch_jobs
    /\ exported' = Some([job |-> jobs[job_id],
                         copy |-> JobFromDict(JobToDict(jobs[job_id]))])
    /\ UNCHANGED batchVars

\* ------------------------------------------------------ velocity rule
\* card ids: 0 stands for a missing (None or empty) card_id
CardIds == {0, 1, 2}
Timestamps == 0..MaxTime

EvalResult(card_id, timestamp, count, triggered) ==
    [card_id |-> card_id, timestamp |-> timestamp, count |-> count,
     triggered |-> triggered, risk |-> IF triggered THEN "HIGH" ELSE "LOW"]

\* VelocityCheckRule.__init__, line 62
FraudInit ==
    /\ transaction_history = <<>>
    /\ evaluated = <<>>
    /\ lastEval = EvalResult(0, 0, 0, FALSE)

\* mutant: a transaction exactly one window old is dropped
RecentStrict(history, timestamp) ==
    SelectSeq(history, LAMBDA t : t > timestamp - TimeWindow)

\* lines 76-77: the timestamps kept
Recent(history, timestamp) ==
    SelectSeq(history, LAMBDA t : t >= timestamp - TimeWindow)

\* mutant: one history for all cards
VelocityEvaluateOneHistory(card_id, timestamp) ==
    IF card_id = 0
    THEN /\ lastEval' = EvalResult(card_id, timestamp, 0, FALSE)
         /\ UNCHANGED <<transaction_history, evaluated>>
    ELSE LET history == IF 1 \in DOMAIN transaction_history
                        THEN transaction_history[1] ELSE <<>>
             recent_transactions == Recent(Append(history, timestamp), timestamp)
         IN
         /\ transaction_history' =
               [c \in DOMAIN transaction_history \cup {1} |->
                   IF c = 1 THEN recent_transactions
                   ELSE transaction_history[c]]
         /\ evaluated' = Append(evaluated, <<card_id, timestamp>>)
         /\ lastEval' = EvalResult(card_id, timestamp, Len(recent_transactions),
                                   Len(recent_transactions) > MaxTransactions)

\* VelocityCheckRule.evaluate, lines 64-84
VelocityEvaluate(card_id, timestamp) ==
    IF card_id = 0
    THEN /\ lastEval' = EvalResult(card_id, timestamp, 0, FALSE)
         /\ UNCHANGED <<transaction_history, evaluated>>
    ELSE LET history == IF card_id \in DOMAIN transaction_history
                        THEN transaction_history[card_id] ELSE <<>>
             recent_transactions == Recent(Append(history, timestamp), timestamp)
         IN
         /\ transaction_history' =
               [c \in DOMAIN transaction_history \cup {card_id} |->
                   IF c = card_id THEN recent_transactions
                   ELSE transaction_history[c]]
         /\ evaluated' = Append(evaluated, <<card_id, timestamp>>)
         /\ lastEval' = EvalResult(card_id, timestamp, Len(recent_transactions),
                                   Len(recent_transactions) > MaxTransactions)

\* ------------------------------------- velocity rule, step by step
\* A list is an object: transaction_history[card_id] names one, and a thread
\* that has looked the name up holds the object, not the name.  An object
\* that nothing names or holds any more is freed, and its place is used again.
Evaluators == 1..MaxEvaluators
StepTimestamps == {0, 6}

Outside == [pc |-> "outside", card_id |-> 0, timestamp |-> 0, held |-> 0,
            recent_transactions |-> <<>>]

StepInit ==
    /\ lists = <<>>
    /\ bound = <<>>
    /\ frames = [c \in Evaluators |-> Outside]
    /\ returned = <<>>

\* transaction_history as the contents of the objects it names
Contents(ls, bd) == [c \in DOMAIN bd |-> ls[bd[c]]]

\* the objects still named by the dictionary or held by a thread
Live(ls, bd, fr) ==
    [i \in {bd[c] : c \in DOMAIN bd} \cup ({fr[c].held : c \in DOMAIN fr} \ {0})
        |-> ls[i]]

\* the place of a new object
NewList == CHOOSE i \in 1..(Cardinality(DOMAIN lists) + 1) :
              /\ i \notin DOMAIN lists
              /\ \A j \in 1..(i - 1) : j \in DOMAIN lists

\* ls with object i set to list
WithList(ls, i, list) == [j \in DOMAIN ls \cup {i} |-> IF j = i THEN list ELSE ls[j]]

\* lines 65-69: the arguments are read; no card_id returns at once
EvalBegin(c, card_id, timestamp) ==
    /\ frames[c].pc = "outside"
    /\ IF card_id = 0
       THEN /\ returned' = Append(returned, EvalResult(card_id, timestamp, 0, FALSE))
            /\ UNCHANGED <<frames, evaluated>>
       ELSE /\ frames' = [frames EXCEPT ![c].pc = "check", ![c].card_id = card_id,
                                        ![c].timestamp = timestamp]
            /\ evaluated' = Append(evaluated, <<card_id, timestamp>>)
            /\ UNCHANGED returned
    /\ UNCHANGED <<lists, bound, transaction_history, lastEval>>

\* line 71
EvalCheck(c) ==
    /\ frames[c].pc = "check"
    /\ frames' = [frames EXCEPT ![c].pc =
                     IF frames[c].card_id \in DOMAIN bound THEN "lookup" ELSE "create"]
    /\ UNCHANGED <<lists, bound, returned, fraudVars>>

\* line 72: a new empty list is bound to the card
EvalCreate(c) ==
    /\ frames[c].pc = "create"
    /\ frames' = [frames EXCEPT ![c].pc = "lookup"]
    /\ bound' = [k \in DOMAIN bound \cup {frames[c].card_id} |->
                    IF k = frames[c].card_id THEN NewList ELSE bound[k]]
    /\ lists' = Live(WithList(lists, NewList, <<>>), bound', frames')
    /\ transaction_history' = Contents(lists', bound')
    /\ UNCHANGED <<returned, evaluated, lastEval>>

\* line 74, self.transaction_history[card_id]: the object is taken
EvalLookup(c) ==
    /\ frames[c].pc = "lookup"
    /\ frames' = [frames EXCEPT ![c].pc = "append", ![c].held = bound[frames[c].card_id]]
    /\ UNCHANGED <<lists, bound, returned, fraudVars>>

\* line 74, .append(timestamp), on the object taken
EvalAppend(c) ==
    /\ frames[c].pc = "append"
    /\ frames' = [frames EXCEPT ![c].pc = "iterate", ![c].held = 0]
    /\ lists' = Live([lists EXCEPT ![frames[c].held] = Append(@, frames[c].timestamp)],
                     bound, frames')
    /\ transaction_history' = Contents(lists', bound)
    /\ UNCHANGED <<bound, returned, evaluated, lastEval>>

\* line 77, self.transaction_history[card_id]: the object is taken again
EvalIterate(c) ==
    /\ frames[c].pc = "iterate"
    /\ frames' = [frames EXCEPT ![c].pc = "filter", ![c].held = bound[frames[c].card_id]]
    /\ UNCHANGED <<lists, bound, returned, fraudVars>>

\* lines 76-77: the comprehension ends with what the object held by then
EvalFilter(c) ==
    /\ frames[c].pc = "filter"
    /\ frames' = [frames EXCEPT ![c].pc = "store", ![c].held = 0,
                     ![c].recent_transactions =
                        Recent(lists[frames[c].held], frames[c].timestamp)]
    /\ lists' = Live(lists, bound, frames')
    /\ UNCHANGED <<bound, returned, fraudVars>>

\* line 79: the new list is bound to the card
EvalStore(c) ==
    /\ frames[c].pc = "store"
    /\ frames' = [frames EXCEPT ![c].pc = "return"]
    /\ bound' = [bound EXCEPT ![frames[c].card_id] = NewList]
    /\ lists' = Live(WithList(lists, NewList, frames[c].recent_transactions),
                     bound', frames')
    /\ transaction_history' = Contents(lists', bound')
    /\ UNCHANGED <<returned, evaluated, lastEval>>

\* lines 81-84
EvalReturn(c) ==
    /\ frames[c].pc = "return"
    /\ returned' = Append(returned,
                      EvalResult(frames[c].card_id, frames[c].timestamp,
                                 Len(frames[c].recent_transactions),
                                 Len(frames[c].recent_transactions) > MaxTransactions))
    /\ frames' = [frames EXCEPT ![c] = Outside]
    /\ UNCHANGED <<lists, bound, fraudVars>>

\* ------------------------------------------------------- the engine
\* Amounts are whole cents.  Text fields are tuples of ASCII codes.
\* str.upper() on ASCII
UpperChar(c) == IF c \in 97..122 THEN c - 32 ELSE c
Upper(s) == [i \in DOMAIN s |-> UpperChar(s[i])]

\* sub in s
Contains(s, sub) ==
    \E i \in 1..(Len(s) - Len(sub) + 1) : SubSeq(s, i, i + Len(sub) - 1) = sub

\* GeographicAnomalyRule(["US", "CA", "GB", "AU"]), line 117
AllowedCountries == {<<85, 83>>, <<67, 65>>, <<71, 66>>, <<65, 85>>}
\* PatternMatchingRule.suspicious_merchants, line 93
SuspiciousMerchants == {<<116, 101, 115, 116, 45, 109, 101, 114, 99, 104, 97, 110, 116>>,
                        <<117, 110, 97, 117, 116, 104, 111, 114, 105, 122, 101, 100, 45, 118, 101, 110, 100, 111, 114>>}
\* the pattern of line 102, in lower case: test|dummy|unauthorized
SuspiciousKeywords == {<<116, 101, 115, 116>>, <<100, 117, 109, 109, 121>>, <<117, 110, 97, 117, 116, 104, 111, 114, 105, 122, 101, 100>>}

\* the rule objects; threshold is used by the amount rule only
AmountThresholdRule(threshold) ==
    [name |-> "Amount Threshold", kind |-> "amount", threshold |-> threshold]
GeographicAnomalyRule == [name |-> "Geographic Anomaly", kind |-> "geographic", threshold |-> 0]
VelocityCheckRule == [name |-> "Velocity Check", kind |-> "velocity", threshold |-> 0]
PatternMatchingRule == [name |-> "Pattern Matching", kind |-> "pattern", threshold |-> 0]
\* a FraudDetectionRule that does not override evaluate
FraudDetectionRule(name) == [name |-> name, kind |-> "base", threshold |-> 0]

\* what one rule's turn gives: the tuple returned, or the exception raised
Returns(triggered, risk_level, message) ==
    [raised |-> FALSE, triggered |-> triggered, risk_level |-> risk_level,
     message |-> message]
Raises == [raised |-> TRUE, triggered |-> FALSE, risk_level |-> "LOW", message |-> <<>>]

\* the amount field: absent, a number of cents, or a text
NoAmount == [kind |-> "absent", value |-> 0]
Amount(n) == [kind |-> "number", value |-> n]
TextAmount == [kind |-> "text", value |-> 0]

\* mutant: an amount equal to the threshold triggers
AmountEvaluateInclusive(rule, transaction) ==
    IF transaction.amount.kind = "text" THEN Raises
    ELSE LET amount == transaction.amount.value
         IN IF amount >= rule.threshold
            THEN Returns(TRUE, "MEDIUM", <<"amount", amount, rule.threshold>>)
            ELSE Returns(FALSE, "LOW", <<>>)

\* AmountThresholdRule.evaluate, lines 32-36; get('amount', 0.0) gives 0 for
\* an absent amount, and a text compared with a number raises TypeError
AmountEvaluate(rule, transaction) ==
    IF transaction.amount.kind = "text" THEN Raises
    ELSE LET amount == transaction.amount.value
         IN IF amount > rule.threshold
            THEN Returns(TRUE, "MEDIUM", <<"amount", amount, rule.threshold>>)
            ELSE Returns(FALSE, "LOW", <<>>)

\* GeographicAnomalyRule.evaluate, lines 47-51
GeographicEvaluate(transaction) ==
    LET country == Upper(transaction.country)
    IN IF country # <<>> /\ country \notin AllowedCountries
       THEN Returns(TRUE, "HIGH", <<"country", country>>)
       ELSE Returns(FALSE, "LOW", <<>>)

\* PatternMatchingRule.evaluate, lines 95-106
PatternEvaluate(transaction) ==
    LET merchant == Lower(transaction.merchant)
        description == Lower(transaction.description)
    IN IF \E sm \in SuspiciousMerchants : Contains(merchant, sm)
       THEN Returns(TRUE, "HIGH", <<"merchant", merchant>>)
       ELSE IF \E k \in SuspiciousKeywords : Contains(description, k)
            THEN Returns(TRUE, "MEDIUM", <<"description", description>>)
            ELSE Returns(FALSE, "LOW", <<>>)

\* rule.evaluate(transaction), line 139; velocity is what the velocity rule
\* returned for this transaction
RuleEvaluate(rule, transaction, velocity) ==
    CASE rule.kind = "amount" -> AmountEvaluate(rule, transaction)
      [] rule.kind = "geographic" -> GeographicEvaluate(transaction)
      [] rule.kind = "pattern" -> PatternEvaluate(transaction)
      [] rule.kind = "velocity" ->
            Returns(velocity.triggered, velocity.risk, <<"velocity", velocity.count>>)
      [] rule.kind = "base" -> Raises

Outcome(rule, turn) ==
    [rule_name |-> rule.name, risk_level |-> turn.risk_level, message |-> turn.message]

\* mutant: the loop ends at the first rule that raises
RECURSIVE RunRulesUntilRaise(_, _, _, _)
RunRulesUntilRaise(rs, transaction, velocity, acc) ==
    IF rs = <<>> THEN acc
    ELSE LET turn == RuleEvaluate(Head(rs), transaction, velocity)
         IN IF turn.raised
            THEN [turns |-> Append(acc.turns, turn), results |-> acc.results]
            ELSE RunRulesUntilRaise(Tail(rs), transaction, velocity,
                    [turns |-> Append(acc.turns, turn),
                     results |-> IF turn.triggered
                                 THEN Append(acc.results, Outcome(Head(rs), turn))
                                 ELSE acc.results])

\* the loop of lines 137-152: the turns taken and the results appended
RECURSIVE RunRules(_, _, _, _)
RunRules(rs, transaction, velocity, acc) ==
    IF rs = <<>> THEN acc
    ELSE LET turn == RuleEvaluate(Head(rs), transaction, velocity)
         IN RunRules(Tail(rs), transaction, velocity,
               [turns |-> Append(acc.turns, turn),
                results |-> IF ~turn.raised /\ turn.triggered
                            THEN Append(acc.results, Outcome(Head(rs), turn))
                            ELSE acc.results])

EngineCall(op, arg, before, turns, results, ok) ==
    [op |-> op, arg |-> arg, before |-> before, turns |-> turns,
     results |-> results, ok |-> ok]

\* FraudDetectionEngine.__init__, lines 110-119
EngineInit ==
    /\ rules = <<AmountThresholdRule(100000), GeographicAnomalyRule,
                 VelocityCheckRule, PatternMatchingRule>>
    /\ lastEngine = EngineCall("none", 0, <<>>, <<>>, <<>>, FALSE)

\* add_rule, lines 121-123
AddRule(rule) ==
    /\ rules' = Append(rules, rule)
    /\ lastEngine' = EngineCall("add_rule", rule, rules, <<>>, <<>>, TRUE)
    /\ UNCHANGED fraudVars

\* mutant: only the first rule of that name is removed
RemoveRuleFirstOnly(rule_name) ==
    LET named == {i \in DOMAIN rules : rules[i].name = rule_name}
        first == CHOOSE i \in named : \A i2 \in named : i <= i2
    IN
    /\ rules' = IF named = {} THEN rules
                 ELSE SubSeq(rules, 1, first - 1) \o SubSeq(rules, first + 1, Len(rules))
    /\ lastEngine' = EngineCall("remove_rule", rule_name, rules, <<>>, <<>>,
                                Len(rules') < Len(rules))
    /\ UNCHANGED fraudVars

\* remove_rule, lines 125-131
RemoveRule(rule_name) ==
    /\ rules' = SelectSeq(rules, LAMBDA r : r.name # rule_name)
    /\ lastEngine' = EngineCall("remove_rule", rule_name, rules, <<>>, <<>>,
                                Len(rules') < Len(rules))
    /\ UNCHANGED fraudVars

\* evaluate_transaction, lines 133-161; the velocity rule, when it is among
\* the rules, takes its turn on its own history
EvaluateTransaction(transaction) ==
    /\ IF \E i \in DOMAIN rules : rules[i].kind = "velocity"
       THEN VelocityEvaluate(transaction.card_id, transaction.timestamp)
       ELSE UNCHANGED fraudVars
    /\ LET run_ == RunRules(rules, transaction, lastEval',
                            [turns |-> <<>>, results |-> <<>>])
       IN lastEngine' = EngineCall("evaluate_transaction", transaction, rules,
                                   run_.turns, run_.results, TRUE)
    /\ UNCHANGED rules

\* the transactions offered to the engine
Transaction(amount, country, card_id, timestamp, merchant, description) ==
    [amount |-> amount, country |-> country, card_id |-> card_id,
     timestamp |-> timestamp, merchant |-> merchant, description |-> description]

Amounts == {NoAmount, TextAmount, Amount(0), Amount(100000), Amount(100001),
            Amount(5000), Amount(5001)}

\* "us" and "RU"; "My Test-Merchant"; "a DUMMY order"
Transactions ==
    {Transaction(a, <<>>, 0, 0, <<>>, <<>>) : a \in Amounts}
    \cup {Transaction(Amount(100001), <<117, 115>>, 1, 0, <<>>, <<>>),
          Transaction(TextAmount, <<82, 85>>, 1, 0, <<77, 121, 32, 84, 101, 115, 116, 45, 77, 101, 114, 99, 104, 97, 110, 116>>, <<>>),
          Transaction(NoAmount, <<82, 85>>, 0, 0, <<>>, <<97, 32, 68, 85, 77, 77, 89, 32, 111, 114, 100, 101, 114>>)}

\* the rules offered to add_rule
NewRules == {AmountThresholdRule(5000), AmountThresholdRule(0 - 1),
             FraudDetectionRule("Custom"), FraudDetectionRule("Amount Threshold")}
RuleNames == {"Amount Threshold", "Velocity Check", "Custom", "amount threshold"}

\* ------------------------------------------------------- specifications
Init ==
    AuthInit /\ ConcInit /\ BatchInit /\ FraudInit /\ StepInit /\ EngineInit /\ ExportInit

AuthOnly == UNCHANGED <<concVars, batchVars, fraudVars, stepVars, engineVars, exported>>
BatchOnly == UNCHANGED <<authVars, concVars, fraudVars, stepVars, engineVars, exported>>
FraudOnly == UNCHANGED <<authVars, concVars, batchVars, stepVars, engineVars, exported>>
StepOnly == UNCHANGED <<authVars, concVars, batchVars, engineVars, exported>>
EngineOnly == UNCHANGED <<authVars, concVars, batchVars, stepVars, exported>>
ExportOnly == UNCHANGED <<authVars, concVars, batchVars, fraudVars, stepVars, engineVars>>

\* Spec: one account, right and wrong passwords
AuthNext ==
    \/ \E a \in OneAccount, s \in Salts :
          CreateUser(a[1], a[2], a[3], s) /\ nextUid' <= LockoutUsers + 1 /\ AuthOnly
    \/ \E n \in Usernames, p \in Passwords :
          Authenticate(n, p) /\ nextSid' <= LockoutSessions + 1 /\ AuthOnly
    \/ \E s \in 1..LockoutSessions : ValidateSession(s) /\ AuthOnly
    \/ \E s \in 1..LockoutSessions : Logout(s) /\ AuthOnly
    \/ \E u \in 1..LockoutUsers, upd \in LockoutUpdates :
          UpdateUser(u, upd[1], upd[2]) /\ AuthOnly
    \/ \E u \in 1..LockoutUsers : DeleteUser(u) /\ AuthOnly
    \/ \E u \in 1..LockoutUsers, c \in Passwords, p \in Passwords, s \in Salts :
          ChangePassword(u, c, p, s) /\ AuthOnly
    \/ \E u \in 1..LockoutUsers, p \in Passwords, s \in Salts :
          ResetPassword(u, p, s) /\ AuthOnly
    \/ \E u \in 1..LockoutUsers : LockUser(u) /\ AuthOnly
    \/ \E u \in 1..LockoutUsers : UnlockUser(u) /\ AuthOnly
    \/ \E u \in 1..LockoutUsers : ActivateUser(u) /\ AuthOnly
    \/ \E u \in 1..LockoutUsers : DeactivateUser(u) /\ AuthOnly
    \/ \E f \in LockoutFiles :
          ImportFromJson(f) /\ nextUid' <= LockoutUsers + 1 /\ AuthOnly
    \/ \E d \in TickSteps : Tick(d) /\ AuthOnly

Spec == Init /\ [][AuthNext]_vars

\* SpecUsers: three accounts, every password right, the clock at rest
UsersNext ==
    \/ \E a \in Accounts, s \in Salts :
          CreateUser(a[1], a[2], a[3], s) /\ nextUid' <= MaxUsers + 1 /\ AuthOnly
    \/ \E n \in Usernames, p \in {1} :
          Authenticate(n, p) /\ nextSid' <= MaxSessions + 1 /\ AuthOnly
    \/ \E s \in 1..MaxSessions : ValidateSession(s) /\ AuthOnly
    \/ \E s \in 1..MaxSessions : Logout(s) /\ AuthOnly
    \/ \E u \in 1..MaxUsers, upd \in Updates : UpdateUser(u, upd[1], upd[2]) /\ AuthOnly
    \/ \E u \in 1..MaxUsers : DeleteUser(u) /\ AuthOnly
    \/ \E u \in 1..MaxUsers, s \in Salts : ChangePassword(u, 1, 1, s) /\ AuthOnly
    \/ \E u \in 1..MaxUsers, s \in Salts : ResetPassword(u, 1, s) /\ AuthOnly
    \/ \E u \in 1..MaxUsers : LockUser(u) /\ AuthOnly
    \/ \E u \in 1..MaxUsers : UnlockUser(u) /\ AuthOnly
    \/ \E u \in 1..MaxUsers : ActivateUser(u) /\ AuthOnly
    \/ \E u \in 1..MaxUsers : DeactivateUser(u) /\ AuthOnly
    \/ \E f \in Files : ImportFromJson(f) /\ nextUid' <= MaxUsers + 1 /\ AuthOnly

SpecUsers == Init /\ [][UsersNext]_vars

\* RepeatSpec: one account, right and wrong passwords again and again, and
\* the clock
RepeatNext ==
    \/ \E a \in OneAccount, s \in Salts :
          CreateUser(a[1], a[2], a[3], s) /\ nextUid' <= LockoutUsers + 1 /\ AuthOnly
    \/ \E n \in Usernames, p \in Passwords :
          Authenticate(n, p) /\ nextSid' <= RepeatSessions + 1 /\ AuthOnly
    \/ \E d \in TickSteps : Tick(d) /\ AuthOnly

RepeatSpec == Init /\ [][RepeatNext]_vars

\* ImportSpec: accounts made, deactivated and locked, and files imported
ImportNext ==
    \/ \E a \in Accounts, s \in Salts :
          CreateUser(a[1], a[2], a[3], s) /\ nextUid' <= MaxUsers + 1 /\ AuthOnly
    \/ \E u \in 1..MaxUsers : DeactivateUser(u) /\ AuthOnly
    \/ \E u \in 1..MaxUsers : LockUser(u) /\ AuthOnly
    \/ \E f \in ImportFiles : ImportFromJson(f) /\ AuthOnly

ImportSpec == Init /\ [][ImportNext]_vars

\* SessionsSpec: one account, every password right, MaxSessions sessions and
\* the clock
SessionsNext ==
    \/ \E a \in OneAccount, s \in Salts :
          CreateUser(a[1], a[2], a[3], s) /\ nextUid' <= LockoutUsers + 1 /\ AuthOnly
    \/ \E n \in Usernames :
          Authenticate(n, 1) /\ nextSid' <= MaxSessions + 1 /\ AuthOnly
    \/ \E s \in 1..MaxSessions : ValidateSession(s) /\ AuthOnly
    \/ \E s \in 1..MaxSessions : Logout(s) /\ AuthOnly
    \/ \E u \in 1..LockoutUsers : DeactivateUser(u) /\ AuthOnly
    \/ \E u \in 1..LockoutUsers : ActivateUser(u) /\ AuthOnly
    \/ \E d \in SessionTicks : Tick(d) /\ AuthOnly

SessionsSpec == Init /\ [][SessionsNext]_vars

\* ConcSpec: one account; MaxCallers threads inside authenticate at once
ConcNext ==
    \/ \E a \in OneAccount, s \in Salts :
          /\ CreateUser(a[1], a[2], a[3], s) /\ nextUid' <= LockoutUsers + 1
          /\ UNCHANGED <<concVars, batchVars, fraudVars, stepVars, engineVars, exported>>
    \/ \E c \in Callers, n \in Usernames, p \in Passwords :
          AuthBegin(c, n, p) /\ UNCHANGED <<batchVars, fraudVars, stepVars, engineVars, exported>>
    \/ \E c \in Callers : AuthVerify(c) /\ UNCHANGED <<batchVars, fraudVars, stepVars, engineVars, exported>>
    \/ \E c \in Callers : AuthLoad(c) /\ UNCHANGED <<batchVars, fraudVars, stepVars, engineVars, exported>>
    \/ \E c \in Callers : AuthStore(c) /\ UNCHANGED <<batchVars, fraudVars, stepVars, engineVars, exported>>
    \/ \E c \in Callers : AuthCheck(c) /\ UNCHANGED <<batchVars, fraudVars, stepVars, engineVars, exported>>
    \/ \E c \in Callers :
          AuthGrant(c) /\ nextSid' <= LockoutSessions + MaxCallers /\ UNCHANGED <<batchVars, fraudVars, stepVars, engineVars, exported>>

ConcSpec == Init /\ [][ConcNext]_vars

\* BatchSpec: the manager's calls and the steps of the executions
BatchNext ==
    \/ \E b \in BatchTypes, f \in Callbacks :
          /\ RegisterProcessor(b, f) /\ nextPid' <= 3 + MaxRegistrations
          /\ BatchOnly
    \/ \E b \in BatchTypes, n \in 0..MaxItems :
          CreateJob(b, n) /\ Len(jobs') <= MaxJobs /\ BatchOnly
    \/ \E j \in 1..MaxJobs : StartJob(j) /\ Len(threads') <= MaxThreads /\ BatchOnly
    \/ \E j \in 1..MaxJobs : DeleteJob(j) /\ BatchOnly
    \/ \E t \in DOMAIN threads : Begin(t) /\ BatchOnly
    \/ \E t \in DOMAIN threads, r \in Results : ProcessItem(t, r) /\ BatchOnly
    \/ \E t \in DOMAIN threads : LoadCounter(t) /\ BatchOnly
    \/ \E t \in DOMAIN threads : StoreCounter(t) /\ BatchOnly
    \/ \E t \in DOMAIN threads : LoadProcessed(t) /\ BatchOnly
    \/ \E t \in DOMAIN threads : StoreProcessed(t) /\ BatchOnly
    \/ \E t \in DOMAIN threads : Finish(t) /\ BatchOnly
    \/ \E t \in DOMAIN threads : Cleanup(t) /\ BatchOnly

BatchSpec == Init /\ [][BatchNext]_vars

\* a step of execution t
ExecutionStep(t) ==
    \/ Begin(t) /\ BatchOnly
    \/ \E r \in Results : ProcessItem(t, r) /\ BatchOnly
    \/ LoadCounter(t) /\ BatchOnly
    \/ StoreCounter(t) /\ BatchOnly
    \/ LoadProcessed(t) /\ BatchOnly
    \/ StoreProcessed(t) /\ BatchOnly
    \/ Finish(t) /\ BatchOnly
    \/ Cleanup(t) /\ BatchOnly

\* ItemsSpec: a job of up to ItemsPerJob items and the execution it is given
ItemsNext ==
    \/ \E b \in BatchTypes, f \in Callbacks :
          /\ RegisterProcessor(b, f) /\ nextPid' <= 3 + ItemsRegistrations
          /\ BatchOnly
    \/ \E b \in BatchTypes, n \in 0..ItemsPerJob :
          CreateJob(b, n) /\ Len(jobs') <= ItemsJobs /\ BatchOnly
    \/ \E j \in 1..ItemsJobs : StartJob(j) /\ Len(threads') <= ItemsThreads /\ BatchOnly
    \/ \E j \in 1..ItemsJobs : DeleteJob(j) /\ BatchOnly
    \/ \E t \in DOMAIN threads : Begin(t) /\ BatchOnly
    \/ \E t \in DOMAIN threads, r \in Results : ProcessItem(t, r) /\ BatchOnly
    \/ \E t \in DOMAIN threads : LoadCounter(t) /\ BatchOnly
    \/ \E t \in DOMAIN threads : StoreCounter(t) /\ BatchOnly
    \/ \E t \in DOMAIN threads : LoadProcessed(t) /\ BatchOnly
    \/ \E t \in DOMAIN threads : StoreProcessed(t) /\ BatchOnly
    \/ \E t \in DOMAIN threads : Finish(t) /\ BatchOnly
    \/ \E t \in DOMAIN threads : Cleanup(t) /\ BatchOnly

ItemsSpec == Init /\ [][ItemsNext]_vars

\* FairSpec: ItemsSpec where every started thread keeps being scheduled and
\* every call of the process function returns or raises
FairSpec ==
    /\ Init
    /\ [][ItemsNext]_vars
    /\ \A t \in 1..ItemsThreads : WF_vars(t \in DOMAIN threads /\ ExecutionStep(t))

\* ExportSpec: one job of up to ExportItems items, its execution, and exports
\* at any moment
ExportNext ==
    \/ \E b \in BatchTypes, n \in 0..ExportItems :
          CreateJob(b, n) /\ Len(jobs') <= ItemsJobs /\ BatchOnly
    \/ \E j \in 1..ItemsJobs : StartJob(j) /\ Len(threads') <= ItemsThreads /\ BatchOnly
    \/ \E j \in 1..ItemsJobs : ExportImport(j) /\ ExportOnly
    \/ \E t \in DOMAIN threads : Begin(t) /\ BatchOnly
    \/ \E t \in DOMAIN threads, r \in Results : ProcessItem(t, r) /\ BatchOnly
    \/ \E t \in DOMAIN threads : LoadCounter(t) /\ BatchOnly
    \/ \E t \in DOMAIN threads : StoreCounter(t) /\ BatchOnly
    \/ \E t \in DOMAIN threads : LoadProcessed(t) /\ BatchOnly
    \/ \E t \in DOMAIN threads : StoreProcessed(t) /\ BatchOnly
    \/ \E t \in DOMAIN threads : Finish(t) /\ BatchOnly
    \/ \E t \in DOMAIN threads : Cleanup(t) /\ BatchOnly

ExportSpec == Init /\ [][ExportNext]_vars

\* PairSpec: PairJobs jobs of up to PairItems items and PairThreads executions
PairNext ==
    \/ \E b \in BatchTypes, n \in 0..PairItems :
          CreateJob(b, n) /\ Len(jobs') <= PairJobs /\ BatchOnly
    \/ \E j \in 1..PairJobs : StartJob(j) /\ Len(threads') <= PairThreads /\ BatchOnly
    \/ \E t \in DOMAIN threads : Begin(t) /\ BatchOnly
    \/ \E t \in DOMAIN threads, r \in Results : ProcessItem(t, r) /\ BatchOnly
    \/ \E t \in DOMAIN threads : LoadCounter(t) /\ BatchOnly
    \/ \E t \in DOMAIN threads : StoreCounter(t) /\ BatchOnly
    \/ \E t \in DOMAIN threads : LoadProcessed(t) /\ BatchOnly
    \/ \E t \in DOMAIN threads : StoreProcessed(t) /\ BatchOnly
    \/ \E t \in DOMAIN threads : Finish(t) /\ BatchOnly
    \/ \E t \in DOMAIN threads : Cleanup(t) /\ BatchOnly

PairSpec == Init /\ [][PairNext]_vars

\* VelocitySpec: one card, timestamps that never go back
VelocityNext ==
    \E c \in {0, 1}, ts \in Timestamps :
       /\ ts >= lastEval.timestamp
       /\ VelocityEvaluate(c, ts)
       /\ Len(evaluated') <= MaxEvaluations
       /\ FraudOnly

VelocitySpec == Init /\ [][VelocityNext]_vars

\* StepSpec: MaxEvaluators threads inside evaluate, all for card 1
StepNext ==
    \/ \E c \in Evaluators, ts \in StepTimestamps :
          EvalBegin(c, 1, ts) /\ Len(evaluated') <= StepEvaluations /\ StepOnly
    \/ \E c \in Evaluators : EvalCheck(c) /\ StepOnly
    \/ \E c \in Evaluators : EvalCreate(c) /\ StepOnly
    \/ \E c \in Evaluators : EvalLookup(c) /\ StepOnly
    \/ \E c \in Evaluators : EvalAppend(c) /\ StepOnly
    \/ \E c \in Evaluators : EvalIterate(c) /\ StepOnly
    \/ \E c \in Evaluators : EvalFilter(c) /\ StepOnly
    \/ \E c \in Evaluators : EvalStore(c) /\ StepOnly
    \/ \E c \in Evaluators : EvalReturn(c) /\ StepOnly

StepSpec == Init /\ [][StepNext]_vars

\* EngineSpec: the rule list and the evaluation of transactions
EngineNext ==
    \/ \E r \in NewRules : AddRule(r) /\ Len(rules') <= MaxRules /\ EngineOnly
    \/ \E n \in RuleNames : RemoveRule(n) /\ EngineOnly
    \/ \E t \in Transactions :
          /\ EvaluateTransaction(t)
          /\ Len(evaluated') <= EngineEvaluations
          /\ EngineOnly

EngineSpec == Init /\ [][EngineNext]_vars

\* AnyOrderSpec: two cards, timestamps in any order
\* EntitySpec: the cards evaluated in turn, at two times more than a window
\* apart, in any order
EntityNext ==
    \E c \in CardIds, ts \in StepTimestamps :
       /\ VelocityEvaluate(c, ts)
       /\ Len(evaluated') <= EntityEvaluations
       /\ FraudOnly

EntitySpec == Init /\ [][EntityNext]_vars

AnyOrderNext ==
    \E c \in CardIds, ts \in Timestamps :
       /\ VelocityEvaluate(c, ts)
       /\ Len(evaluated') <= AnyOrderEvaluations
       /\ FraudOnly

AnyOrderSpec == Init /\ [][AnyOrderNext]_vars

\* ------------------------------------------------------ properties, Spec

Matches(user, password) == HashPassword(password, user.salt) = user.password_hash

\* the clock has reached the user's locked_until
LockoutOver(user) == user.locked_until # None /\ now >= user.locked_until[1]

Granted(user) ==
    /\ last'.ok
    /\ last'.sid \notin DOMAIN active_sessions
    /\ last'.sid \in DOMAIN active_sessions'
    /\ active_sessions'[last'.sid].user_id = user.id

Refused ==
    /\ ~last'.ok
    /\ active_sessions' = active_sessions

C3_SessionNamesItsUser ==
    (last.op = "authenticate" /\ last.ok) =>
       /\ last.sid \in DOMAIN active_sessions
       /\ last.uid \in UserIds
       /\ now <= active_sessions[last.sid].created_at + SessionTimeout
             => ValidateResult(last.sid) = last.uid

C3_RightPasswordGranted ==
    [][\A n \in Usernames, p \in Passwords :
          LET i == GetUserByUsername(n) IN
          (Authenticate(n, p) /\ i # 0 /\ Matches(users[i], p)
              /\ users[i].active /\ ~IsLocked(users[i]))
             => Granted(users[i]) /\ last'.uid = users[i].id
      ]_authVars

C3_AuthenticateThenValidate == []C3_SessionNamesItsUser /\ C3_RightPasswordGranted

\* a session was granted, time has passed and the session is still valid
C3_Witness ==
    /\ last.op = "authenticate" /\ last.ok
    /\ now > active_sessions[last.sid].created_at
    /\ ValidateResult(last.sid) = last.uid

\* C24: when a lockout that came from MaxFailedAttempts wrong passwords has
\* ended because the clock reached locked_until, the user is unlocked as a
\* new user is: one more wrong password does not lock the user again
C24_UnlockedAfterLockout ==
    [][\A n \in Usernames, p \in Passwords :
          LET i == GetUserByUsername(n) IN
          (/\ Authenticate(n, p) /\ i # 0
           /\ ~Matches(users[i], p)
           /\ users[i].active
           /\ LockoutOver(users[i])
           /\ run[users[i].id] = MaxFailedAttempts
           /\ users[i].failed_login_attempts = MaxFailedAttempts)
             => /\ users'[i].locked_until = users[i].locked_until
                /\ ~(now < users'[i].locked_until[1])
      ]_authVars

\* what authenticate returned is None
ReturnedNone == ~last'.ok /\ last'.sid = 0

\* C25: authenticate returns the same value, None, for a username that does
\* not exist as for a user that exists with a wrong password, locked or
\* inactive; the value returned does not tell whether the user exists
C25_SameRefusal ==
    [][\A n \in Usernames, p \in Passwords :
          LET i == GetUserByUsername(n) IN
          Authenticate(n, p) =>
             /\ i = 0 => ReturnedNone
             /\ (i # 0 /\ ~Matches(users[i], p)) => ReturnedNone
             /\ (i # 0 /\ IsLocked(users[i])) => ReturnedNone
             /\ (i # 0 /\ ~users[i].active) => ReturnedNone
      ]_authVars

\* a call for a username that does not exist was refused while a user exists
\* who is locked after wrong passwords
C25_Witness ==
    /\ last.op = "authenticate" /\ last.uid = 0 /\ ~last.ok /\ last.sid = 0
    /\ \E i \in DOMAIN users :
          IsLocked(users[i]) /\ users[i].failed_login_attempts = MaxFailedAttempts

\* change_password with a wrong current password returns False and changes
\* neither the user nor any session
WrongCurrentChangesNothing ==
    \A u \in 1..LockoutUsers, c \in Passwords, p \in Passwords, s \in Salts :
          LET i == UserIndex(u) IN
          (ChangePassword(u, c, p, s) /\ i # 0 /\ ~Matches(users[i], c)) =>
             /\ ~last'.ok
             /\ users' = users
             /\ active_sessions' = active_sessions

\* with the right current password it returns True, the new password is the
\* user's, and counter, lockout and sessions are as they were
RightCurrentChanges ==
    \A u \in 1..LockoutUsers, c \in Passwords, p \in Passwords, s \in Salts :
          LET i == UserIndex(u) IN
          (ChangePassword(u, c, p, s) /\ i # 0 /\ Matches(users[i], c)) =>
             /\ last'.ok
             /\ Matches(users'[i], p)
             /\ users'[i].failed_login_attempts = users[i].failed_login_attempts
             /\ users'[i].locked_until = users[i].locked_until
             /\ active_sessions' = active_sessions

\* the call before this one was op, it returned True, and it was for user
JustDone(op, user) == last.op = op /\ last.ok /\ last.uid = user.id

\* authenticate right after op: the new password is granted, the old one,
\* when it is another, refused
NewPasswordOnly(op) ==
    \A n \in Usernames, p \in Passwords :
          LET i == GetUserByUsername(n) IN
          (Authenticate(n, p) /\ i # 0 /\ JustDone(op, users[i])) =>
             /\ p = last.arg[2] => Granted(users[i])
             /\ (p = last.arg[1] /\ p # last.arg[2]) => Refused

\* authenticate right after op: the new password is granted to a user who is
\* active and not locked, and any other password is refused
NewPasswordOnlyIfAdmitted(op) ==
    \A n \in Usernames, p \in Passwords :
          LET i == GetUserByUsername(n) IN
          (Authenticate(n, p) /\ i # 0 /\ JustDone(op, users[i])) =>
             /\ (p = last.arg[2] /\ users[i].active /\ ~IsLocked(users[i]))
                   => Granted(users[i])
             /\ p # last.arg[2] => Refused

\* C26 as stated: change_password with a wrong current password returns False
\* and leaves hash, salt, counter, lockout and sessions as they were; with the
\* right one it returns True, every session is kept, and authenticate then
\* succeeds with the new password and fails with the old one
C26_ChangePasswordAsStated ==
    [][WrongCurrentChangesNothing /\ RightCurrentChanges
          /\ NewPasswordOnly("change_password")]_authVars

\* C26: as above, where authenticate then succeeds with the new password if
\* the user is active and not locked, and fails with every other password
C26_ChangePassword ==
    [][WrongCurrentChangesNothing /\ RightCurrentChanges
          /\ NewPasswordOnlyIfAdmitted("change_password")]_authVars

\* the password was changed from 1 to 2 and the user's session is still valid
C26_Witness ==
    /\ last.op = "change_password" /\ last.ok /\ last.arg = <<1, 2>>
    /\ \E s \in SessionsOf(last.uid) : ValidateResult(s) = last.uid

\* reset_password on an existing user returns True and leaves the counter at
\* 0 and no lockout
ResetClears ==
    \A u \in 1..LockoutUsers, p \in Passwords, s \in Salts :
          LET i == UserIndex(u) IN
          (ResetPassword(u, p, s) /\ i # 0) =>
             /\ last'.ok
             /\ Matches(users'[i], p)
             /\ users'[i].failed_login_attempts = 0
             /\ users'[i].locked_until = None

\* C27 as stated: reset_password on an existing user asks for no current
\* password and leaves counter 0 and no lockout; right after it authenticate
\* succeeds with the new password, also for a user locked before, and fails
\* with the old one
C27_ResetPasswordAsStated ==
    [][ResetClears /\ NewPasswordOnly("reset_password")]_authVars

\* C27: as above, where authenticate succeeds with the new password if the
\* user is active, and fails with every other password
C27_ResetPassword ==
    [][ResetClears /\ NewPasswordOnlyIfAdmitted("reset_password")]_authVars

\* a user locked by wrong passwords has had the password reset from 1 to 2
\* and is active
C27_Witness ==
    /\ last.op = "reset_password" /\ last.ok /\ last.arg = <<1, 2, TRUE>>
    /\ LET user == users[UserIndex(last.uid)] IN
       /\ user.active
       /\ Matches(user, 2)
       /\ user.failed_login_attempts = 0
       /\ user.locked_until = None

\* C5: no session is owned by a user who is locked, deactivated or gone.
C5_NoSessionOfBarredUser ==
    \A s \in DOMAIN active_sessions :
       LET i == UserIndex(active_sessions[s].user_id) IN
       /\ i # 0
       /\ users[i].active
       /\ ~IsLocked(users[i])

\* ------------------------------------------------- properties, SpecUsers

\* C4: a successful lock_user, deactivate_user or delete_user of a user leaves
\* exactly the sessions that other users own, each unchanged.
C4_CascadeRevocation ==
    [][\A u \in 1..MaxUsers :
          ((LockUser(u) \/ DeactivateUser(u) \/ DeleteUser(u)) /\ UserIndex(u) # 0) =>
             /\ last'.ok
             /\ \A s \in DOMAIN active_sessions' : active_sessions'[s].user_id # u
             /\ \A s \in DOMAIN active_sessions :
                   active_sessions[s].user_id # u =>
                      /\ s \in DOMAIN active_sessions'
                      /\ active_sessions'[s] = active_sessions[s]
             /\ DOMAIN active_sessions' \subseteq DOMAIN active_sessions
      ]_authVars

\* sessions of a user were revoked while another user's session stayed
C4_Witness ==
    /\ last.op \in {"lock_user", "deactivate_user", "delete_user"}
    /\ last.ok
    /\ last.arg >= 1
    /\ active_sessions # <<>>
    /\ \A s \in DOMAIN active_sessions : active_sessions[s].user_id # last.uid

\* C6: no two users have the same username or the same email, ignoring case.
C6_UniqueIgnoringCase ==
    \A i, j \in DOMAIN users :
       i # j => /\ Lower(users[i].username) # Lower(users[j].username)
                /\ Lower(users[i].email) # Lower(users[j].email)

Collides(username, email) ==
    \E i \in DOMAIN users :
       \/ Lower(users[i].username) = Lower(username)
       \/ Lower(users[i].email) = Lower(email)

\* C7: create_user with a username or email that an existing user has,
\* ignoring case, returns no id and changes neither table; otherwise it adds
\* one user, active, with no failed attempts and no lockout.
C7_CreateUser ==
    [][\A a \in Accounts, s \in Salts :
          CreateUser(a[1], a[2], a[3], s) =>
             IF Collides(a[1], a[2])
             THEN /\ ~last'.ok /\ last'.uid = 0
                  /\ users' = users
                  /\ active_sessions' = active_sessions
             ELSE /\ last'.ok
                  /\ last'.uid \notin UserIds
                  /\ Len(users') = Len(users) + 1
                  /\ SubSeq(users', 1, Len(users)) = users
                  /\ LET new == users'[Len(users')] IN
                     /\ new.id = last'.uid
                     /\ new.username = a[1] /\ new.email = a[2]
                     /\ new.active
                     /\ new.failed_login_attempts = 0
                     /\ new.locked_until = None
                  /\ active_sessions' = active_sessions
      ]_authVars

\* with "A" the only user and a session in the table, a second account was
\* refused
C7_Witness ==
    /\ last.op = "create_user" /\ ~last.ok
    /\ Len(users) = 1
    /\ users[1].username = <<65>>
    /\ users[1].email = <<121>>
    /\ active_sessions # <<>>

\* ------------------------------------------------- properties, ConcSpec

\* every increment stored is in the counter once no caller stands between its
\* read and its write of the counter
NoLostIncrement ==
    \A i \in DOMAIN users :
       (\A c \in Callers : ~(calls[c].pc = "store" /\ calls[c].user_id = users[i].id))
          => users[i].failed_login_attempts = recorded[users[i].id]

\* no session is made for a user who is locked at that moment
NoGrantPastLockout ==
    [][\A c \in Callers :
          AuthGrant(c) => ~IsLocked(users[UserIndex(calls[c].user_id)])
      ]_vars

\* C2: under any interleaving of authenticate calls for one user no
\* wrong-password increment is lost, and once the user is locked out no racing
\* call is granted a session before the lockout ends.
C2_AtomicCounter == []NoLostIncrement /\ NoGrantPastLockout

\* ------------------------------------------------ properties, BatchSpec

\* C8: once processing has started, every state a reader can observe has
\* processed_items = successful_items + failed_items.
C8_CountersAgree ==
    \A j \in DOMAIN jobs :
       jobs[j].started_at # None =>
          jobs[j].processed_items = jobs[j].successful_items + jobs[j].failed_items

\* C9: processed_items never exceeds total_items, and total_items stays the
\* number of items the job was created with.
C9_ProcessedWithinTotal ==
    \A j \in DOMAIN jobs :
       /\ jobs[j].processed_items <= jobs[j].total_items
       /\ jobs[j].total_items = Len(jobs[j].items)

\* C10: at most one execution is ever launched for a job.
C10_StartedAtMostOnce ==
    \A j \in DOMAIN jobs : Cardinality(Executions(j)) <= 1

TerminalStatuses == {"Completed", "Failed", "Partially Completed"}

\* an execution of the job has not yet left process_batch
Executing(job_id) ==
    \E t \in Executions(job_id) : threads[t].pc \notin {"cleanup", "done"}

\* C11: the status moves Pending -> Processing -> terminal (Pending -> Failed
\* when there is no process function), and once the status is terminal no
\* field of the job or of its items changes again.
C11_Lifecycle ==
    [][\A j \in DOMAIN jobs :
          /\ jobs[j].status = "Pending" =>
                jobs'[j].status \in {"Pending", "Processing", "Failed"}
          /\ jobs[j].status = "Processing" =>
                jobs'[j].status \in {"Processing"} \cup TerminalStatuses
          /\ jobs[j].status \in TerminalStatuses => jobs'[j] = jobs[j]
      ]_vars

\* C12: while an execution launched by a successful start_batch_job has not
\* brought the job to a terminal status, delete_batch_job returns false and
\* the job stays in the table.
C12_NoDeleteWhileRunning ==
    [][\A j \in DOMAIN jobs :
          (DeleteJob(j) /\ Executing(j) /\ jobs[j].status \notin TerminalStatuses) =>
             /\ ~lastJob'.ok
             /\ j \in batch_jobs'
      ]_vars

\* the items that are no longer Pending
Touched(job) == {k \in DOMAIN job.items : job.items[k].status # "Pending"}

\* C16: the items that are not Pending form a prefix of the items, of length
\* processed_items or processed_items + 1, and at most one call of the
\* process function is in progress for a job.
C16_OneItemAtATime ==
    \A j \in DOMAIN jobs :
       /\ \E n \in {jobs[j].processed_items, jobs[j].processed_items + 1} :
             Touched(jobs[j]) = 1..n
       /\ Cardinality({t \in Executions(j) : threads[t].pc = "call"}) <= 1

\* C18: when start_batch_job has returned true the job is no longer Pending
\* and started_at is set.
C18_StartedOnReturn ==
    (lastJob.op = "start_batch_job" /\ lastJob.ok) =>
       /\ jobs[lastJob.job_id].status # "Pending"
       /\ jobs[lastJob.job_id].started_at # None

\* ------------------------------------------------ properties, ItemsSpec

FailedItems(job) == {k \in DOMAIN job.items : job.items[k].status = "Failed"}
CompletedItems(job) == {k \in DOMAIN job.items : job.items[k].status = "Completed"}

\* the job was given one execution, with a process function, and that
\* execution has left process_batch
Executed(job_id) ==
    /\ Cardinality(Executions(job_id)) = 1
    /\ \A t \in Executions(job_id) :
          /\ threads[t].pc \in {"cleanup", "done"}
          /\ threads[t].process_function # 0

\* the item under the call gets the status of the call's outcome, and no
\* other item changes
ItemGetsItsResult ==
    [][\A t \in DOMAIN threads, r \in Results :
          ProcessItem(t, r) =>
             LET j == threads[t].job
                 k == threads[t].idx
             IN
             /\ jobs'[j].items[k].status =
                   IF r = "success" THEN "Completed" ELSE "Failed"
             /\ \A k2 \in DOMAIN jobs[j].items \ {k} :
                   jobs'[j].items[k2] = jobs[j].items[k2]
      ]_vars

PartiallyCompletedAtEnd ==
    \A j \in DOMAIN jobs :
       LET N == Len(jobs[j].items)
           k == Cardinality(FailedItems(jobs[j]))
       IN
       (Executed(j) /\ 0 < k /\ k < N) =>
          /\ jobs[j].status = "Partially Completed"
          /\ jobs[j].processed_items = N
          /\ jobs[j].failed_items = k
          /\ jobs[j].successful_items = N - k
          /\ CompletedItems(jobs[j]) = DOMAIN jobs[j].items \ FailedItems(jobs[j])

\* C13: when the process function fails k of the N items of a job, 0 < k < N,
\* the executed job is Partially Completed with processed_items = N,
\* failed_items = k, successful_items = N - k, the k items Failed and the
\* others Completed.
C13_PartiallyCompleted == []PartiallyCompletedAtEnd /\ ItemGetsItsResult

\* two of three items failed
C13_Witness ==
    \E j \in DOMAIN jobs :
       /\ Executed(j)
       /\ Len(jobs[j].items) = 3
       /\ Cardinality(FailedItems(jobs[j])) = 2
       /\ jobs[j].status = "Partially Completed"

CompletedOrFailedAtEnd ==
    \A j \in DOMAIN jobs :
       LET N == Len(jobs[j].items)
           k == Cardinality(FailedItems(jobs[j]))
       IN
       Executed(j) =>
          /\ k = 0 => jobs[j].status = "Completed"
          /\ (N >= 1 /\ k = N) => jobs[j].status = "Failed"

\* the terminal status is set when every item has been processed
DecidedAfterAllItems ==
    [][\A t \in DOMAIN threads :
          (Finish(t) /\ Cardinality(Executions(threads[t].job)) = 1) =>
             LET job == jobs[threads[t].job] IN
             /\ job.processed_items = Len(job.items)
             /\ Touched(job) = DOMAIN job.items
             /\ jobs'[threads[t].job].status \in TerminalStatuses
      ]_vars

\* C14: an executed job none of whose items failed is Completed (a job
\* without items too); one with items that all failed is Failed; the status is
\* decided after all items have been processed.
C14_CompletedOrFailed == []CompletedOrFailedAtEnd /\ DecidedAfterAllItems

\* a job without items ended Completed
C14_Witness ==
    \E j \in DOMAIN jobs :
       /\ Executed(j)
       /\ jobs[j].items = <<>>
       /\ jobs[j].status = "Completed"
       /\ jobs[j].completed_at # None

\* a raise marks the item Failed with the message and goes on to the counters
RaiseMarksItem ==
    [][\A t \in DOMAIN threads :
          ProcessItem(t, "raise") =>
             LET j == threads[t].job
                 k == threads[t].idx
             IN
             /\ jobs'[j].items[k].status = "Failed"
             /\ jobs'[j].items[k].error_message = Some("raised")
             /\ jobs'[j].status = jobs[j].status
             /\ threads'[t].pc = "load"
      ]_vars

\* the counter written after a raise is failed_items, one more than before
RaiseCountsOnce ==
    [][\A t \in DOMAIN threads :
          (StoreCounter(t) /\ threads[t].result = "raise"
             /\ Cardinality(Executions(threads[t].job)) = 1) =>
             LET j == threads[t].job IN
             /\ jobs'[j].failed_items = jobs[j].failed_items + 1
             /\ jobs'[j].successful_items = jobs[j].successful_items
      ]_vars

RunsToTheEnd ==
    \A j \in DOMAIN jobs :
       Executed(j) =>
          /\ jobs[j].processed_items = jobs[j].total_items
          /\ Touched(jobs[j]) = DOMAIN jobs[j].items
          /\ jobs[j].status = TerminalStatus(jobs[j])

\* C15: a raise of the process function on an item marks that item Failed
\* with the message, adds one to failed_items, and the execution goes on: the
\* job ends with processed_items = total_items and the status of the
\* terminal status rule.
C15_RaiseIsolated == []RunsToTheEnd /\ RaiseMarksItem /\ RaiseCountsOnce

\* the first item raised and a later item was completed
C15_Witness ==
    \E j \in DOMAIN jobs :
       /\ Executed(j)
       /\ Len(jobs[j].items) >= 2
       /\ jobs[j].items[1].error_message = Some("raised")
       /\ jobs[j].items[2].status = "Completed"
       /\ jobs[j].processed_items = jobs[j].total_items

\* ------------------------------------------------- properties, FairSpec

\* C17: every job whose start_batch_job returned true eventually has a
\* terminal status and completed_at set.
C17_EventuallyTerminal ==
    \A j \in 1..ItemsJobs :
       (j \in DOMAIN jobs /\ Executions(j) # {}) ~>
          (/\ j \in DOMAIN jobs
           /\ jobs[j].status \in TerminalStatuses
           /\ jobs[j].completed_at # None)

\* ---------------------------------------------- properties, VelocitySpec

\* the evaluated transactions of the card stamped in [timestamp - TimeWindow,
\* timestamp]
InWindow(card_id, timestamp) ==
    {i \in DOMAIN evaluated :
        /\ evaluated[i][1] = card_id
        /\ evaluated[i][2] >= timestamp - TimeWindow
        /\ evaluated[i][2] <= timestamp}

\* C19: with timestamps that never go back, an evaluation at t triggers, with
\* risk High, exactly when more than MaxTransactions of the card's evaluated
\* transactions, this one included, are stamped in [t - TimeWindow, t].
C19_VelocityTrigger ==
    lastEval.card_id # 0 =>
       /\ lastEval.triggered <=>
             Cardinality(InWindow(lastEval.card_id, lastEval.timestamp)) > MaxTransactions
       /\ lastEval.risk = "HIGH" <=> lastEval.triggered

\* four transactions within 4 minutes triggered on the 4th; the 5th, 10
\* minutes after the 1st, counts neither the 1st nor the others
C19_Witness ==
    /\ Len(evaluated) = 5
    /\ evaluated[1][2] = 0
    /\ evaluated[4][2] = 4
    /\ evaluated[5][2] = 10
    /\ lastEval.timestamp = 10
    /\ lastEval.count = 1
    /\ ~lastEval.triggered

\* ---------------------------------------------- properties, AnyOrderSpec

\* C20: in whatever order the timestamps come, the count compared with the
\* maximum at an evaluation stamped t is the number of the card's evaluated
\* transactions stamped in [t - TimeWindow, t].
C20_CountIsTrailingWindow ==
    lastEval.card_id # 0 =>
       lastEval.count = Cardinality(InWindow(lastEval.card_id, lastEval.timestamp))

\* -------------------------------------------------- properties, StepSpec
Count(seq, v) == Cardinality({i \in DOMAIN seq : seq[i] = v})

\* the latest timestamp among the calls made
Latest == CHOOSE ts \in {evaluated[i][2] : i \in DOMAIN evaluated} :
             \A i \in DOMAIN evaluated : evaluated[i][2] <= ts

\* every call made has returned
AllReturned == \A c \in Evaluators : frames[c].pc = "outside"

\* the history has every timestamp evaluated that is inside the window
NothingLost ==
    \A i \in DOMAIN evaluated :
       evaluated[i][2] >= Latest - TimeWindow =>
          /\ 1 \in DOMAIN transaction_history
          /\ Count(transaction_history[1], evaluated[i][2]) >=
                Count(evaluated, evaluated[i])

\* the calls that trigger when the timestamps are evaluated one after another
RECURSIVE TriggersInOrder(_, _)
TriggersInOrder(timestamps, history) ==
    IF timestamps = <<>> THEN 0
    ELSE LET recent_transactions ==
                Recent(Append(history, Head(timestamps)), Head(timestamps))
         IN (IF Len(recent_transactions) > MaxTransactions THEN 1 ELSE 0)
            + TriggersInOrder(Tail(timestamps), recent_transactions)

Orders(n) == {f \in [1..n -> 1..n] : \A i, j \in 1..n : f[i] = f[j] => i = j}

Triggered == Cardinality({i \in DOMAIN returned : returned[i].triggered})

SomeOrderAgrees ==
    \E f \in Orders(Len(evaluated)) :
       Triggered = TriggersInOrder([i \in DOMAIN evaluated |-> evaluated[f[i]][2]], <<>>)

\* C21: when every concurrent evaluate call for a card has returned, the
\* card's history holds the timestamp of each of those calls that lies in the
\* window, and as many calls triggered as in some sequential order of them
C21_AtomicHistory ==
    (AllReturned /\ evaluated # <<>>) => (NothingLost /\ SomeOrderAgrees)

\* ------------------------------------------------ properties, EngineSpec
\* the last call was evaluate_transaction
Evaluation == lastEngine.op = "evaluate_transaction"

\* the rules whose turn triggered
TriggeredRules ==
    {i \in DOMAIN lastEngine.turns :
        ~lastEngine.turns[i].raised /\ lastEngine.turns[i].triggered}

\* the k-th smallest member of S
Nth(S, k) == CHOOSE i \in S : Cardinality({j \in S : j <= i}) = k

\* C22: evaluate_transaction gives every registered rule its turn, in
\* registration order, and returns one outcome (rule name, risk level,
\* message) for each rule that triggered, in that order; a rule that raises
\* adds no outcome and the rules after it still take their turn
C22_EveryRuleInOrder ==
    Evaluation =>
       /\ Len(lastEngine.turns) = Len(lastEngine.before)
       /\ \A i \in DOMAIN lastEngine.before :
             lastEngine.turns[i] =
                RuleEvaluate(lastEngine.before[i], lastEngine.arg, lastEval)
       /\ Len(lastEngine.results) = Cardinality(TriggeredRules)
       /\ \A k \in DOMAIN lastEngine.results :
             LET i == Nth(TriggeredRules, k)
             IN lastEngine.results[k] =
                   [rule_name |-> lastEngine.before[i].name,
                    risk_level |-> lastEngine.turns[i].risk_level,
                    message |-> lastEngine.turns[i].message]

\* the amount rule raised, and the geographic and pattern rules after it
\* were reported
C22_Witness ==
    /\ Evaluation
    /\ lastEngine.before[1].kind = "amount"
    /\ lastEngine.turns[1].raised
    /\ Len(lastEngine.results) = 2
    /\ lastEngine.results[1].rule_name = "Geographic Anomaly"
    /\ lastEngine.results[2].rule_name = "Pattern Matching"

\* the turn of each amount rule follows the amount: above the threshold it
\* triggers with MEDIUM, at or below it does not
AmountAboveThreshold ==
    Evaluation =>
       \A i \in DOMAIN lastEngine.before :
          (lastEngine.before[i].kind = "amount" /\ lastEngine.arg.amount.kind = "number") =>
             /\ ~lastEngine.turns[i].raised
             /\ lastEngine.turns[i].triggered <=>
                   lastEngine.arg.amount.value > lastEngine.before[i].threshold
             /\ lastEngine.turns[i].triggered => lastEngine.turns[i].risk_level = "MEDIUM"

\* a transaction without amount does not trigger an amount rule
NoAmountNeverTriggers ==
    Evaluation =>
       \A i \in DOMAIN lastEngine.before :
          (lastEngine.before[i].kind = "amount" /\ lastEngine.arg.amount.kind = "absent") =>
             ~lastEngine.turns[i].triggered

\* a transaction without amount is taken as amount 0
NoAmountIsZero ==
    Evaluation =>
       \A i \in DOMAIN lastEngine.before :
          (lastEngine.before[i].kind = "amount" /\ lastEngine.arg.amount.kind = "absent") =>
             /\ ~lastEngine.turns[i].raised
             /\ lastEngine.turns[i].triggered <=> 0 > lastEngine.before[i].threshold
             /\ lastEngine.turns[i].triggered => lastEngine.turns[i].risk_level = "MEDIUM"

\* C23 as stated: an amount rule with threshold T triggers, with MEDIUM, if
\* and only if amount > T (not at T, at T plus one cent it does), and a
\* transaction with no amount does not trigger
C23_AmountThresholdAsStated == AmountAboveThreshold /\ NoAmountNeverTriggers

\* C23: an amount rule with threshold T triggers, with MEDIUM, if and only
\* if amount > T (not at T, at T plus one cent it does); a transaction with
\* no amount is evaluated as amount 0, so it triggers only when T < 0
C23_AmountThreshold == AmountAboveThreshold /\ NoAmountIsZero

\* one cent above a threshold of 5000 triggers that rule and not the rule
\* with threshold 100000
C23_Witness ==
    /\ Evaluation
    /\ lastEngine.arg.amount = Amount(5001)
    /\ \E i \in DOMAIN lastEngine.before :
          /\ lastEngine.before[i] = AmountThresholdRule(5000)
          /\ lastEngine.turns[i].triggered
          /\ lastEngine.turns[i].risk_level = "MEDIUM"
    /\ lastEngine.before[1] = AmountThresholdRule(100000)
    /\ ~lastEngine.turns[1].triggered

\* ---------------------------------------------- properties, SessionsSpec
\* the lifetime of the session is over
PastLifetime(session) == now > session.created_at + SessionTimeout

\* validate_session of a session past its lifetime returns None and removes it
ExpiredIsRemoved ==
    \A s \in 1..MaxSessions :
       (ValidateSession(s) /\ s \in DOMAIN active_sessions
           /\ PastLifetime(active_sessions[s])) =>
          /\ ~last'.ok /\ last'.uid = 0
          /\ s \notin DOMAIN active_sessions'

\* validate_session of a session that is not in the table returns None, and
\* a session once removed is never in the table again
RemovedIsNotFound ==
    \A s \in 1..MaxSessions :
       /\ (ValidateSession(s) /\ s \notin DOMAIN active_sessions) =>
             ~last'.ok /\ last'.uid = 0
       /\ (s < nextSid /\ s \notin DOMAIN active_sessions) =>
             s \notin DOMAIN active_sessions'

\* validate_session removes no other session
OthersAreKept ==
    \A s \in 1..MaxSessions :
       ValidateSession(s) =>
          \A t \in DOMAIN active_sessions \ {s} :
             t \in DOMAIN active_sessions' /\ active_sessions'[t] = active_sessions[t]

\* a session leaves the table only by validate_session or logout of it, or by
\* deactivating, locking or deleting its user: nothing sweeps the table
NoSweep ==
    \A t \in DOMAIN active_sessions :
       t \notin DOMAIN active_sessions' =>
          \/ last'.op \in {"validate_session", "logout"} /\ last'.sid = t
          \/ /\ last'.op \in {"deactivate_user", "lock_user", "delete_user"}
             /\ last'.uid = active_sessions[t].user_id

\* C28: validate_session never returns a user id for a session whose expiry
\* (creation time + session_timeout) has passed; the first such check removes
\* the session, so that every later check reports it not found; an expired
\* session that is not checked stays in the table; a check removes no other
\* session
C28_LazyExpiry ==
    [][ExpiredIsRemoved /\ RemovedIsNotFound /\ OthersAreKept /\ NoSweep]_authVars

\* session 1 was found expired and removed, while session 2, expired as well
\* and not checked, is still in the table
C28_Witness ==
    /\ last.op = "validate_session" /\ ~last.ok /\ last.sid = 1
    /\ 1 \notin DOMAIN active_sessions
    /\ 2 \in DOMAIN active_sessions
    /\ PastLifetime(active_sessions[2])

\* -------------------------------------------------- properties, PairSpec
\* a job changes only in a step of one of its own executions, and that step
\* moves no other execution
OnlyItsOwnExecution ==
    [][\A j \in DOMAIN jobs :
          jobs'[j] # jobs[j] =>
             \E t \in Executions(j) :
                /\ threads'[t] # threads[t]
                /\ \A t2 \in DOMAIN threads \ {t} : threads'[t2] = threads[t2]
      ]_vars

\* a job given one execution ends as it ends when executed alone: every item
\* with the status of its own call, the counters counting the job's own items,
\* and the status of the terminal status rule
EndsAsAlone ==
    \A j \in DOMAIN jobs :
       Executed(j) =>
          /\ Touched(jobs[j]) = DOMAIN jobs[j].items
          /\ jobs[j].processed_items = jobs[j].total_items
          /\ jobs[j].successful_items = Cardinality(CompletedItems(jobs[j]))
          /\ jobs[j].failed_items = Cardinality(FailedItems(jobs[j]))
          /\ jobs[j].status = TerminalStatus(jobs[j])
          /\ jobs[j].completed_at # None

\* C29: two jobs with different ids executing at the same time do not affect
\* each other, also when they have the same batch type and processor: under
\* every interleaving a job is changed by its own execution only, and its
\* final status, counters and item statuses are those of the job executed
\* alone
C29_JobsIndependent == []EndsAsAlone /\ OnlyItsOwnExecution /\ ItemGetsItsResult

\* two jobs of the same batch type are inside their executions at once, the
\* item of the first failed and the item of the second completed
C29_Witness ==
    /\ Len(jobs) = 2 /\ Len(threads) = 2
    /\ jobs[1].batch_type = jobs[2].batch_type
    /\ threads[1].job = 1 /\ threads[2].job = 2
    /\ threads[1].pc = "store" /\ threads[1].result = "failure"
    /\ threads[2].pc = "storep" /\ threads[2].result = "success"
    /\ jobs[1].items[1].status = "Failed"
    /\ jobs[2].items[1].status = "Completed"
    /\ jobs[2].successful_items = 1

\* ------------------------------------------------ properties, ExportSpec
\* C30: the job made by from_dict of the record that to_dict gave for a job
\* has as many items, in the same order and each with the same status, and
\* the same job status and total, processed, successful and failed counters,
\* whatever state the job was in
C30_RoundTrip ==
    exported # None =>
       LET job == exported[1].job
           copy == exported[1].copy
       IN
       /\ Len(copy.items) = Len(job.items)
       /\ \A k \in DOMAIN job.items : copy.items[k].status = job.items[k].status
       /\ copy.status = job.status
       /\ copy.total_items = job.total_items
       /\ copy.processed_items = job.processed_items
       /\ copy.successful_items = job.successful_items
       /\ copy.failed_items = job.failed_items

\* a job in the middle of its execution was exported: the first item Failed
\* and counted, the second still Pending
C30_Witness ==
    /\ exported # None
    /\ exported[1].job.status = "Processing"
    /\ Len(exported[1].job.items) = 2
    /\ exported[1].job.items[1].status = "Failed"
    /\ exported[1].job.items[2].status = "Pending"
    /\ exported[1].job.failed_items = 1
    /\ exported[1].copy.items[1].status = "Failed"

\* ----------------------------------------- properties, BatchSpec, continued
\* register_processor(b, f) leaves f as the process function of type b and
\* the processors of the other types as they were
RegistrationReplaces ==
    \A b \in BatchTypes, f \in Callbacks :
       RegisterProcessor(b, f) =>
          /\ processors'[b][1].process_function = f
          /\ \A b2 \in BatchTypes \ {b} : processors'[b2] = processors[b2]

\* an execution is launched with the process function registered for the
\* job's type at that moment
StartTakesRegistered ==
    \A j \in DOMAIN jobs :
       (StartJob(j) /\ lastJob'.ok) =>
          threads'[Len(threads')].process_function
             = processors[jobs[j].batch_type][1].process_function

\* the execution launched last for a job
LatestExecution(job_id) ==
    CHOOSE t \in Executions(job_id) : \A t2 \in Executions(job_id) : t2 <= t

\* an item is given to the process function that was registered when its job
\* was started last, and to no earlier one
CalledIsRegisteredAtStart ==
    \A t \in DOMAIN threads, r \in Results :
       ProcessItem(t, r) =>
          threads[t].process_function
             = threads[LatestExecution(threads[t].job)].process_function

\* C31: one process function per batch type and the last registration wins:
\* after register_processor(t, f1) and then register_processor(t, f2), every
\* item of every job of type t started afterwards is processed by f2 and never
\* by f1, and the process functions of the other types are unchanged
C31_LastRegistrationWins ==
    [][RegistrationReplaces /\ StartTakesRegistered /\ CalledIsRegisteredAtStart]_vars

\* no process function is registered for the batch type
NoProcessFunction(batch_type) ==
    \/ processors[batch_type] = None
    \/ processors[batch_type][1].process_function = 0

\* C32: start_batch_job of a Pending job whose batch type has no process
\* function returns False and marks the job Failed at once; no item is
\* processed (every item stays Pending, the counters stay 0) and no execution
\* is launched
C32_NoProcessorFailsAtOnce ==
    [][\A j \in DOMAIN jobs :
          (/\ StartJob(j)
           /\ j \in batch_jobs
           /\ jobs[j].status = "Pending"
           /\ NoProcessFunction(jobs[j].batch_type))
             => /\ ~lastJob'.ok
                /\ jobs'[j].status = "Failed"
                /\ \A k \in DOMAIN jobs'[j].items : jobs'[j].items[k].status = "Pending"
                /\ jobs'[j].processed_items = 0
                /\ jobs'[j].successful_items = 0
                /\ jobs'[j].failed_items = 0
                /\ threads' = threads
      ]_vars

\* ------------------------------------- properties, EngineSpec, continued
\* the places of the rules that do not have the name
Kept(name) == {i \in DOMAIN rules : rules[i].name # name}

\* the k-th of those places, counted from the front
KeptPlace(name, k) ==
    CHOOSE i \in Kept(name) : Cardinality({x \in Kept(name) : x <= i}) = k

\* C33: remove_rule(name) removes every rule whose name is exactly name,
\* keeps the other rules in the order they had, and returns True exactly when
\* a rule was removed; when no rule has the name the rules are unchanged and
\* the result is False
C33_RemoveRule ==
    [][\A name \in RuleNames :
          RemoveRule(name) =>
             /\ \A i \in DOMAIN rules' : rules'[i].name # name
             /\ Len(rules') = Cardinality(Kept(name))
             /\ \A k \in DOMAIN rules' : rules'[k] = rules[KeptPlace(name, k)]
             /\ lastEngine'.ok <=> (\E i \in DOMAIN rules : rules[i].name = name)
             /\ (\A i \in DOMAIN rules : rules[i].name # name)
                   => (rules' = rules /\ ~lastEngine'.ok)
      ]_vars

\* two rules named "Amount Threshold", with the other rules between them,
\* were removed by one call, and the three rules of other names are left in
\* their order
C33_Witness ==
    /\ lastEngine.op = "remove_rule"
    /\ lastEngine.arg = "Amount Threshold"
    /\ lastEngine.ok
    /\ Len(lastEngine.before) = 5
    /\ lastEngine.before[1].name = "Amount Threshold"
    /\ lastEngine.before[5].name = "Amount Threshold"
    /\ Len(rules) = 3
    /\ rules[1].name = "Geographic Anomaly"
    /\ rules[3].name = "Pattern Matching"

\* ----------------------------------------- properties, BatchSpec, progress
\* get_progress is processed_items * 100 / total_items (here rounded down),
\* and 100 for a job without items
ProgressAsDefined ==
    \A j \in DOMAIN jobs :
       LET p == GetProgress(jobs[j]) IN
       IF jobs[j].total_items = 0 THEN p = 100
       ELSE /\ p * jobs[j].total_items <= jobs[j].processed_items * 100
            /\ jobs[j].processed_items * 100 < (p + 1) * jobs[j].total_items

ProgressInRange ==
    \A j \in DOMAIN jobs : GetProgress(jobs[j]) \in 0..100

ProgressNeverDecreases ==
    \A j \in DOMAIN jobs : GetProgress(jobs'[j]) >= GetProgress(jobs[j])

\* C34: for every job in every state, get_progress is processed_items * 100 /
\* total_items when the job has items and 100 when it has none, lies between
\* 0 and 100, and never decreases from one observation to the next
C34_Progress ==
    /\ [](ProgressAsDefined /\ ProgressInRange)
    /\ [][ProgressNeverDecreases]_vars

\* ------------------------------------------------ properties, ImportSpec
\* the records of the file that have a known role, by position
Valid(file) == {k \in DOMAIN file : file[k].role_ok}

\* the last valid record of the file with the id of record k
LastOfId(file, k) ==
    CHOOSE k2 \in Valid(file) :
       /\ file[k2].id = file[k].id
       /\ \A k3 \in Valid(file) : file[k3].id = file[k].id => k3 <= k2

\* C35: import_from_json refuses records one by one: a record with an unknown
\* role is skipped and the import goes on, every valid record of the file is
\* stored under its id (the last one when several carry the same id), and the
\* users of the table that no stored record names are unchanged
C35_ImportPerRecord ==
    [][\A f \in ImportFiles :
          ImportFromJson(f) =>
             /\ \A k \in Valid(f) :
                   \E i \in DOMAIN users' :
                      /\ users'[i].id = f[k].id
                      /\ users'[i].username = f[LastOfId(f, k)].username
                      /\ users'[i].email = f[LastOfId(f, k)].email
                      /\ users'[i].password_hash = f[LastOfId(f, k)].password_hash
             /\ \A i \in DOMAIN users :
                   (\A k \in Valid(f) : f[k].id # users[i].id)
                      => (i \in DOMAIN users' /\ users'[i] = users[i])
             /\ \A i \in DOMAIN users' :
                   \/ i \in DOMAIN users /\ users'[i].id = users[i].id
                   \/ \E k \in Valid(f) : f[k].id = users'[i].id
             /\ last'.ok <=> (Valid(f) # {})
      ]_authVars

\* an import has stored the records of users 3 and 2, which stand before and
\* after a refused record naming user 1; user 1, deactivated before, is as it
\* was
C35_Witness ==
    /\ last.op = "import_from_json"
    /\ last.ok
    /\ \E i \in DOMAIN users :
          users[i].id = 1 /\ ~users[i].active /\ users[i].username = <<97>>
    /\ \E i \in DOMAIN users : users[i].id = 2 /\ users[i].username = <<65>>
    /\ \E i \in DOMAIN users : users[i].id = 3 /\ users[i].username = <<98>>

\* ------------------------------------------------ properties, RepeatSpec
\* a granted authenticate leaves the counter of failed attempts at 0
GrantResets ==
    \A n \in Usernames, p \in Passwords :
       LET i == GetUserByUsername(n) IN
       (Authenticate(n, p) /\ last'.ok) => users'[i].failed_login_attempts = 0

\* a user in lockout has had MaxFailedAttempts wrong passwords in a row, with
\* no granted call between them
LockedOnlyAfterFullRun ==
    \A i \in DOMAIN users :
       IsLocked(users[i]) => run[users[i].id] = MaxFailedAttempts

\* C36: only failures in a row count towards the lockout: a granted
\* authenticate sets the counter of failed attempts to 0, so fewer than
\* max_failed_attempts wrong passwords followed by the right one never lock
\* the user, however often that is repeated
C36_OnlyConsecutiveFailures ==
    []LockedOnlyAfterFullRun /\ [][GrantResets]_authVars

\* after three granted calls the user has four wrong passwords in a row and
\* is not locked
C36_Witness ==
    /\ nextSid = RepeatSessions + 1
    /\ \E i \in DOMAIN users :
          /\ users[i].failed_login_attempts = MaxFailedAttempts - 1
          /\ run[users[i].id] = MaxFailedAttempts - 1
          /\ users[i].locked_until = None
          /\ users[i].last_login # None
    /\ last.op = "authenticate" /\ ~last.ok

\* ------------------------------------------------ properties, EntitySpec
\* the history a rule would hold for a card had it been given the
\* evaluations of that card only, in the order they were made
RECURSIVE Alone(_, _, _)
Alone(evals, card_id, history) ==
    IF evals = <<>> THEN history
    ELSE IF Head(evals)[1] # card_id THEN Alone(Tail(evals), card_id, history)
    ELSE Alone(Tail(evals), card_id,
               Recent(Append(history, Head(evals)[2]), Head(evals)[2]))

\* an evaluation of one card leaves the history of every other card as it was
OthersUntouched ==
    \A a \in CardIds, ts \in StepTimestamps :
       VelocityEvaluate(a, ts) =>
          \A b \in CardIds \ {a} :
             /\ (b \in DOMAIN transaction_history') = (b \in DOMAIN transaction_history)
             /\ b \in DOMAIN transaction_history
                   => transaction_history'[b] = transaction_history[b]

\* a transaction without a card never triggers and changes no history
NoCardNoSignal ==
    \A ts \in StepTimestamps :
       VelocityEvaluate(0, ts) =>
          /\ ~lastEval'.triggered
          /\ transaction_history' = transaction_history

\* the history of a card, and what its last evaluation returned, are what the
\* evaluations of that card alone give
AsIfAlone ==
    /\ \A b \in CardIds \ {0} :
          IF b \in DOMAIN transaction_history
          THEN transaction_history[b] = Alone(evaluated, b, <<>>)
          ELSE Alone(evaluated, b, <<>>) = <<>>
    /\ lastEval.card_id # 0 =>
          /\ lastEval.count = Len(Alone(evaluated, lastEval.card_id, <<>>))
          /\ lastEval.triggered = (lastEval.count > MaxTransactions)
    /\ 0 \notin DOMAIN transaction_history

\* C37: the velocity history is kept per card: an evaluation for one card
\* leaves the history of every other card unchanged and never changes whether
\* a later transaction of another card triggers; a transaction without a card
\* never triggers and leaves every history unchanged
C37_PerEntityHistory ==
    []AsIfAlone /\ [][OthersUntouched /\ NoCardNoSignal]_vars

\* card 2 triggers on its fourth transaction, with a transaction of card 1
\* made in between
C37_Witness ==
    /\ lastEval.card_id = 2
    /\ lastEval.triggered
    /\ Len(evaluated) = 5
    /\ evaluated[3][1] = 1
    /\ Len(transaction_history[1]) = 1
    /\ Len(transaction_history[2]) = 4

\* ------------------------------------------- properties, Spec, continued
\* C38: an authenticate turned away because the username is unknown, the
\* user is inactive or the user is in lockout changes nothing: no session is
\* made, and every user's counter of failed attempts, locked_until and
\* last_login are as they were
C38_RefusalChangesNothing ==
    [][\A n \in Usernames, p \in Passwords :
          LET i == GetUserByUsername(n) IN
          (/\ Authenticate(n, p)
           /\ (i = 0 \/ ~users[i].active \/ IsLocked(users[i])))
             => /\ ~last'.ok
                /\ active_sessions' = active_sessions
                /\ nextSid' = nextSid
                /\ DOMAIN users' = DOMAIN users
                /\ \A u \in DOMAIN users :
                      /\ users'[u].failed_login_attempts = users[u].failed_login_attempts
                      /\ users'[u].locked_until = users[u].locked_until
                      /\ users'[u].last_login = users[u].last_login
      ]_authVars

\* a user who has logged in before is in lockout, and the right password
\* just tried during it was turned away: the counter stands at the threshold
\* and the lockout ends when it did
C38_Witness ==
    /\ last.op = "authenticate" /\ ~last.ok /\ last.arg = 1
    /\ \E i \in DOMAIN users :
          /\ users[i].id = last.uid
          /\ users[i].active
          /\ users[i].password_hash = HashPassword(1, users[i].salt)
          /\ now < LockoutDuration
          /\ users[i].locked_until = Some(LockoutDuration)
          /\ users[i].failed_login_attempts = MaxFailedAttempts
          /\ users[i].last_login = Some(0)

\* ------------------------------------- properties, ItemsSpec, continued
StatusAgreesWithCounters ==
    \A j \in DOMAIN jobs :
       LET job == jobs[j] IN
       /\ job.status = "Completed" =>
             job.failed_items = 0 /\ job.processed_items = job.total_items
       /\ job.status = "Partially Completed" =>
             /\ job.successful_items > 0
             /\ job.failed_items > 0
             /\ job.processed_items = job.total_items
       /\ job.status = "Pending" =>
             /\ job.processed_items = 0
             /\ job.successful_items = 0
             /\ job.failed_items = 0
             /\ \A k \in DOMAIN job.items : job.items[k].status = "Pending"

TerminalHasCompletedAt ==
    \A j \in DOMAIN jobs :
       (/\ jobs[j].status \in {"Completed", "Failed", "Partially Completed"}
        /\ Executions(j) # {})
          => jobs[j].completed_at # None

\* C39: in every state the status of a job agrees with its counters:
\* Completed implies no failed item and all items processed; Partially
\* Completed implies successful and failed items and all items processed;
\* Pending implies counters at 0 and every item Pending; and a terminal
\* status reached through execution has completed_at set
C39_StatusAgrees == StatusAgreesWithCounters /\ TerminalHasCompletedAt

\* ------------------------------------ properties, SessionsSpec, continued
\* logout of a session in the table removes it, returns True and leaves the
\* other sessions and the users as they were
LogoutRemovesOne ==
    \A s \in 1..MaxSessions :
       (Logout(s) /\ s \in DOMAIN active_sessions) =>
          /\ last'.ok
          /\ DOMAIN active_sessions' = DOMAIN active_sessions \ {s}
          /\ \A t \in DOMAIN active_sessions \ {s} :
                /\ active_sessions'[t] = active_sessions[t]
                /\ ValidateResult(t)' = ValidateResult(t)
          /\ users' = users

\* a session that was logged out is not in the table again, and
\* validate_session of it returns None
LoggedOutStaysOut ==
    \A s \in 1..MaxSessions :
       /\ (s < nextSid /\ s \notin DOMAIN active_sessions) =>
             s \notin DOMAIN active_sessions'
       /\ (ValidateSession(s) /\ s \notin DOMAIN active_sessions) =>
             (~last'.ok /\ last'.uid = 0)

\* logout of a session that is not in the table returns False and changes
\* nothing
SecondLogoutIsRefused ==
    \A s \in 1..MaxSessions :
       (Logout(s) /\ s \notin DOMAIN active_sessions) =>
          /\ ~last'.ok
          /\ UNCHANGED <<users, active_sessions, now, nextUid, nextSid>>

\* C40: logout(s) of a session in the table removes that session only and
\* returns True, the other sessions, those of the same user too, staying
\* valid; afterwards validate_session(s) never returns a user id and a second
\* logout(s) returns False and changes nothing
C40_Logout ==
    [][LogoutRemovesOne /\ LoggedOutStaysOut /\ SecondLogoutIsRefused]_authVars

\* session 1 has just been logged out and session 2, of the same user, is
\* still in the table and valid
C40_Witness ==
    /\ last.op = "logout" /\ last.ok /\ last.sid = 1
    /\ DOMAIN active_sessions = {2}
    /\ ValidateResult(2) # 0
    /\ \E i \in DOMAIN users : users[i].id = ValidateResult(2) /\ users[i].active
====
